---- MODULE Spec2Model ----
(***************************************************************************)
(* Dithering engine of ditherui: the nearest-colour quantizers, the        *)
(* error-propagating passes and the ordered (Bayer) pass.                  *)
(*                                                                         *)
(* Colours are triples <<r, g, b>> of channel values on the 0..255 scale.  *)
(* The f32 code paths (Srgb in [0,1]) are modelled with exact rationals:   *)
(* a channel v/255 is carried as the integer v (times a common scale where *)
(* the Bayer offset needs it), so f32 rounding noise is not modelled.      *)
(***************************************************************************)
EXTENDS Integers, Sequences, FiniteSets, TLC

(* ------------------------------ bounds --------------------------------- *)
MaxW == 3
MaxH == 2
MaxPixels == 6
MaxPalLen == 2
MaxCalls == 3
MaxPermPixels == 4

(* --------------------------- numeric helpers --------------------------- *)
Sq(n) == n * n

Abs(n) == IF n < 0 THEN -n ELSE n

Clamp(n, lo, hi) == IF n < lo THEN lo ELSE IF n > hi THEN hi ELSE n

\* Rust integer division truncates toward zero (TLA+ \div floors).
TruncDiv(a, b) == IF a >= 0 THEN a \div b ELSE -((-a) \div b)

\* f64::MAX / f32::MAX, the initial "closest distance" of the quantizers.
\* Every distance of the model is far below it, so the comparison
\* `distance < closest_distance` behaves as in the source.
F64_MAX == 2147483647

\* u16::MAX, the initial closest distance of MonoPixel::quantize.
U16_MAX == 65535

\* initial closest distance of get_closest_color_to
CLOSEST_INIT == 999999999

BLACK == <<0, 0, 0>>
WHITE == <<255, 255, 255>>

\* colour/utils.rs ONE_BIT: black then white
ONE_BIT == <<BLACK, WHITE>>

(* ------------------------------ distances ------------------------------ *)
\* RgbPixel::_weighed_euclidean_diff: the weights follow self's red channel.
weighed_euclidean_diff(self, other) ==
    LET m == IF self[1] > 127 THEN <<3, 4, 2>> ELSE <<2, 4, 3>>
    IN  m[1] * Sq(self[1] - other[1])
      + m[2] * Sq(self[2] - other[2])
      + m[3] * Sq(self[3] - other[3])

get_difference(self, other) == weighed_euclidean_diff(self, other)

\* colour::comparisons::rgb_weighted_euclidean, the distance_fn handed to
\* quantize_colour.  Channels are numerators over 255 * scale; the midpoint
\* test r > 0.5 becomes 2 * r > 255 * scale.  The result is the distance
\* times (255 * scale)^2.
rgb_weighted_euclidean(rgb_a, rgb_b, scale) ==
    LET m == IF 2 * rgb_a[1] > 255 * scale THEN <<3, 4, 2>> ELSE <<2, 4, 3>>
    IN  m[1] * Sq(rgb_a[1] - rgb_b[1])
      + m[2] * Sq(rgb_a[2] - rgb_b[2])
      + m[3] * Sq(rgb_a[3] - rgb_b[3])

\* pixel/comparisons.rs rgb_euclidean on channels over 255: the weights
\* follow the average of the two red channels, r_avg > 0.5.  The result is
\* the distance times 255^2.
rgb_euclidean(rgb_a, rgb_b) ==
    LET m == IF rgb_a[1] + rgb_b[1] > 255 THEN <<3, 4, 2>> ELSE <<2, 4, 3>>
    IN  m[1] * Sq(rgb_a[1] - rgb_b[1])
      + m[2] * Sq(rgb_a[2] - rgb_b[2])
      + m[3] * Sq(rgb_a[3] - rgb_b[3])

\* dither/mod.rs cartesian_distance: integer square root of the plain
\* squared distance.
\* floor of the square root, by bisection of lo..hi (lo^2 <= n < (hi+1)^2)
RECURSIVE ISqrtIn(_, _, _)
ISqrtIn(n, lo, hi) ==
    IF lo >= hi THEN lo
    ELSE LET mid == (lo + hi + 1) \div 2
         IN  IF Sq(mid) <= n THEN ISqrtIn(n, mid, hi) ELSE ISqrtIn(n, lo, mid - 1)

cartesian_distance(c1, c2) ==
    ISqrtIn(Sq(c2[1] - c1[1]) + Sq(c2[2] - c1[2]) + Sq(c2[3] - c1[3]), 0, 442)

(* ------------------------------ quantizers ----------------------------- *)
\* the distance quantize_colour evaluates for a palette entry:
\* distance_fn(original, *colour)
quantize_colour_distance(original, colour, scale) ==
    rgb_weighted_euclidean(original, colour, scale)

\* colour/utils.rs quantize_colour: linear scan, strict <, starts from the
\* original colour itself.
RECURSIVE quantize_colour_loop(_, _, _, _, _, _)
quantize_colour_loop(original, palette, scale, k, current_colour, closest_distance) ==
    IF k > Len(palette) THEN current_colour
    ELSE LET colour == palette[k]
             distance == quantize_colour_distance(original, colour, scale)
         IN  IF distance < closest_distance
             THEN quantize_colour_loop(original, palette, scale, k + 1, colour, distance)
             ELSE quantize_colour_loop(original, palette, scale, k + 1,
                                       current_colour, closest_distance)

\* quantize_colour with the closest distance starting at zero
quantize_colour_from_zero(original, palette, scale) ==
    quantize_colour_loop(original, palette, scale, 1, original, 0)

quantize_colour(original, palette, scale) ==
    quantize_colour_loop(original, palette, scale, 1, original, F64_MAX)

\* colour/utils.rs quantize_rgb on colours of scale 1 (plain u8 values)
quantize_rgb(original_rgb, palette) == quantize_colour(original_rgb, palette, 1)

\* compute_rgb_error without the subtraction of the quantized colour
compute_rgb_error_unsubtracted(main, other) == <<main[1], main[2], main[3]>>

\* colour/utils.rs compute_rgb_error
compute_rgb_error(main, other) ==
    <<main[1] - other[1], main[2] - other[2], main[3] - other[3]>>

\* the distance RgbPixel::quantize evaluates for a palette entry:
\* colour.get_difference(self)
RgbPixel_quantize_distance(self, colour) == get_difference(colour, self)

\* pixel/rgb.rs RgbPixel::quantize: the palette entry is the receiver of
\* get_difference, the pixel its argument.
RECURSIVE RgbPixel_quantize_loop(_, _, _, _, _)
RgbPixel_quantize_loop(self, palette, k, current_colour, closest_distance) ==
    IF k > Len(palette) THEN current_colour
    ELSE LET colour == palette[k]
             distance == RgbPixel_quantize_distance(self, colour)
         IN  IF distance < closest_distance
             THEN RgbPixel_quantize_loop(self, palette, k + 1, colour, distance)
             ELSE RgbPixel_quantize_loop(self, palette, k + 1,
                                         current_colour, closest_distance)

RgbPixel_quantize(self, palette) ==
    RgbPixel_quantize_loop(self, palette, 1, self, F64_MAX)

\* pixel/rgb.rs RgbPixel::get_error
RgbPixel_get_error(self, other) ==
    <<self[1] - other[1], self[2] - other[2], self[3] - other[3]>>

\* MonoPixel::from(&Rgb<u8>): (max + min) / 2
MonoPixel_from(value) ==
    LET mx == IF value[1] >= value[2]
              THEN (IF value[1] >= value[3] THEN value[1] ELSE value[3])
              ELSE (IF value[2] >= value[3] THEN value[2] ELSE value[3])
        mn == IF value[1] <= value[2]
              THEN (IF value[1] <= value[3] THEN value[1] ELSE value[3])
              ELSE (IF value[2] <= value[3] THEN value[2] ELSE value[3])
    IN  (mx + mn) \div 2

\* MonoPixel::quantize over a palette of u8 levels
RECURSIVE MonoPixel_quantize_loop(_, _, _, _, _)
MonoPixel_quantize_loop(self, palette, k, closest_col, closest_dist) ==
    IF k > Len(palette) THEN closest_col
    ELSE LET colour == palette[k]
             distance == Abs(colour - self)
         IN  IF distance < closest_dist
             THEN MonoPixel_quantize_loop(self, palette, k + 1, colour, distance)
             ELSE MonoPixel_quantize_loop(self, palette, k + 1, closest_col, closest_dist)

MonoPixel_quantize(self, palette) ==
    MonoPixel_quantize_loop(self, palette, 1, self, U16_MAX)

\* MonoPixel::get_error
MonoPixel_get_error(self, other) == self - other

\* dither/mod.rs get_closest_color_to: starts from black
RECURSIVE get_closest_color_to_loop(_, _, _, _, _)
get_closest_color_to_loop(original, palette, k, current_colour, closest_distance) ==
    IF k > Len(palette) THEN current_colour
    ELSE LET colour == palette[k]
             distance == cartesian_distance(colour, original)
         IN  IF distance < closest_distance
             THEN get_closest_color_to_loop(original, palette, k + 1, colour, distance)
             ELSE get_closest_color_to_loop(original, palette, k + 1,
                                            current_colour, closest_distance)

get_closest_color_to(original, palette) ==
    get_closest_color_to_loop(original, palette, 1, BLACK, CLOSEST_INIT)

(* ------------------------- kernels (dither/error.rs) ------------------- *)
\* ErrorPropagator::new stores name, matrix and portions as given; nothing
\* is validated.
ErrorPropagator_new(name, matrix, portions) ==
    [name |-> name, matrix |-> matrix, portions |-> portions]

\* Floyd-Steinberg with the tap (-1, 1, 5) entered on the current row
FLOYD_STEINBERG_same_row == ErrorPropagator_new("floyd-steinberg",
    << <<1, 0, 7>>,
       <<-1, 0, 5>>, <<0, 1, 3>>, <<1, 1, 1>> >>, 16)

FLOYD_STEINBERG == ErrorPropagator_new("floyd-steinberg",
    << <<1, 0, 7>>,
       <<-1, 1, 5>>, <<0, 1, 3>>, <<1, 1, 1>> >>, 16)

JARVIS_JUDICE_NINKE == ErrorPropagator_new("jarvis-judice-ninke",
    << <<1, 0, 7>>, <<2, 0, 5>>,
       <<-2, 1, 3>>, <<-1, 1, 5>>, <<0, 1, 7>>, <<1, 1, 5>>, <<2, 1, 3>>,
       <<-2, 2, 1>>, <<-1, 2, 3>>, <<0, 2, 5>>, <<1, 2, 3>>, <<2, 2, 1>> >>, 48)

\* Atkinson with the divisor equal to the sum of its weights
ATKINSON_whole == ErrorPropagator_new("atkinson",
    << <<1, 0, 1>>, <<2, 0, 1>>,
       <<-1, 1, 1>>, <<0, 1, 1>>, <<1, 1, 1>>,
       <<0, 2, 1>> >>, 6)

ATKINSON == ErrorPropagator_new("atkinson",
    << <<1, 0, 1>>, <<2, 0, 1>>,
       <<-1, 1, 1>>, <<0, 1, 1>>, <<1, 1, 1>>,
       <<0, 2, 1>> >>, 8)

BURKES == ErrorPropagator_new("burkes",
    << <<1, 0, 8>>, <<2, 0, 4>>,
       <<-2, 1, 2>>, <<-1, 1, 4>>, <<0, 1, 8>>, <<1, 1, 4>>, <<2, 1, 2>> >>, 32)

STUCKI == ErrorPropagator_new("stucki",
    << <<1, 0, 8>>, <<2, 0, 4>>,
       <<-2, 1, 2>>, <<-1, 1, 4>>, <<0, 1, 8>>, <<1, 1, 4>>, <<2, 1, 2>>,
       <<-2, 2, 1>>, <<-1, 2, 2>>, <<0, 2, 4>>, <<1, 2, 2>>, <<2, 2, 1>> >>, 42)

SIERRA == ErrorPropagator_new("sierra",
    << <<1, 0, 5>>, <<2, 0, 3>>,
       <<-2, 1, 2>>, <<-1, 1, 4>>, <<0, 1, 5>>, <<1, 1, 4>>, <<2, 1, 2>>,
       <<-1, 2, 2>>, <<0, 2, 3>>, <<1, 2, 2>> >>, 32)

SIERRA_TWO_ROW == ErrorPropagator_new("sierra-two-row",
    << <<1, 0, 4>>, <<2, 0, 3>>,
       <<-2, 1, 1>>, <<-1, 1, 2>>, <<0, 1, 3>>, <<1, 1, 2>>, <<2, 1, 1>> >>, 16)

SIERRA_LITE == ErrorPropagator_new("sierra-lite",
    << <<1, 0, 2>>,
       <<-1, 1, 1>>, <<0, 1, 1>> >>, 4)

BuiltinKernels ==
    {FLOYD_STEINBERG, JARVIS_JUDICE_NINKE, ATKINSON, BURKES, STUCKI,
     SIERRA, SIERRA_TWO_ROW, SIERRA_LITE}

\* Propagators a caller can build with ErrorPropagator::new: a zero portion
\* count and a tap that points backwards.
CallerKernels ==
    {ErrorPropagator_new("zero-portions", << <<1, 0, 1>> >>, 0),
     ErrorPropagator_new("backward", << <<-1, 0, 1>>, <<1, 0, 1>> >>, 2)}

AllKernels == BuiltinKernels \cup CallerKernels

(* --------- kernel tables of the modules (dither/errorpropagate.rs) ------ *)
\* error_prop_mod! declares a static tap table and hands it, with the
\* portion count, to error_propagate_through_pixels(_rgb); the name is the
\* one the same kernel carries in dither/error.rs.
error_prop_mod(name, matrix, portion_amnt) ==
    [name |-> name, matrix |-> matrix, portions |-> portion_amnt]

floydsteinberg_MATRIX == error_prop_mod("floyd-steinberg",
    << <<1, 0, 7>>,
       <<-1, 1, 5>>, <<0, 1, 3>>, <<1, 1, 1>> >>, 16)

jarvisjudiceninke_MATRIX == error_prop_mod("jarvis-judice-ninke",
    << <<1, 0, 7>>, <<2, 0, 5>>,
       <<-2, 1, 3>>, <<-1, 1, 5>>, <<0, 1, 7>>, <<1, 1, 5>>, <<2, 1, 3>>,
       <<-2, 2, 1>>, <<-1, 2, 3>>, <<0, 2, 5>>, <<1, 2, 3>>, <<2, 2, 1>> >>, 48)

atkinson_MATRIX == error_prop_mod("atkinson",
    << <<1, 0, 1>>, <<2, 0, 1>>,
       <<-1, 1, 1>>, <<0, 1, 1>>, <<1, 1, 1>>,
       <<0, 2, 1>> >>, 8)

burkes_MATRIX == error_prop_mod("burkes",
    << <<1, 0, 8>>, <<2, 0, 4>>,
       <<-2, 1, 2>>, <<-1, 1, 4>>, <<0, 1, 8>>, <<1, 1, 4>>, <<2, 1, 2>> >>, 32)

stucki_MATRIX == error_prop_mod("stucki",
    << <<1, 0, 8>>, <<2, 0, 4>>,
       <<-2, 1, 2>>, <<-1, 1, 4>>, <<0, 1, 8>>, <<1, 1, 4>>, <<2, 1, 2>>,
       <<-2, 2, 1>>, <<-1, 2, 2>>, <<0, 2, 4>>, <<1, 2, 2>>, <<2, 2, 1>> >>, 42)

sierra_MATRIX == error_prop_mod("sierra",
    << <<1, 0, 5>>, <<2, 0, 3>>,
       <<-2, 1, 2>>, <<-1, 1, 4>>, <<0, 1, 5>>, <<1, 1, 4>>, <<2, 1, 2>>,
       <<-1, 2, 2>>, <<0, 2, 3>>, <<1, 2, 2>> >>, 32)

sierra_TWO_ROW_MATRIX == error_prop_mod("sierra-two-row",
    << <<1, 0, 4>>, <<2, 0, 3>>,
       <<-2, 1, 1>>, <<-1, 1, 2>>, <<0, 1, 3>>, <<1, 1, 2>>, <<2, 1, 1>> >>, 16)

sierra_LITE_MATRIX == error_prop_mod("sierra-lite",
    << <<1, 0, 2>>,
       <<-1, 1, 1>>, <<0, 1, 1>> >>, 4)

ModuleKernels ==
    {floydsteinberg_MATRIX, jarvisjudiceninke_MATRIX, atkinson_MATRIX,
     burkes_MATRIX, stucki_MATRIX, sierra_MATRIX, sierra_TWO_ROW_MATRIX,
     sierra_LITE_MATRIX}

(* ------------------------------- inputs -------------------------------- *)
Gray(v) == <<v, v, v>>

\* channel levels of the images the passes are run on
PixelLevels == {0, 100, 255}

Dims ==
    {d \in (0..MaxW) \X (0..MaxH) :
        /\ d[1] * d[2] <= MaxPixels
        /\ (d[2] = 0 => d[1] = 0)}

Pos(w, h) == (0..(w - 1)) \X (0..(h - 1))

\* the two u8 levels next to the midpoint 127.5 of the channel range
MidGrays == {127, 128}

\* images of the levels above, and the uniform mid-gray images
Images(w, h) ==
    [Pos(w, h) -> {Gray(v) : v \in PixelLevels}]
        \cup {[p \in Pos(w, h) |-> Gray(v)] : v \in MidGrays}

\* channel levels of the images the ordered pass is run on: 120 is moved
\* across the midpoint by the larger thresholds
BayerLevels == {0, 120, 255}

BayerImages(w, h) == [Pos(w, h) -> {Gray(v) : v \in BayerLevels}]

PassPalettes == {<< >>, ONE_BIT}

\* sizes handed to Bayer::new (any usize is accepted)
MatrixSizes == {0, 1, 2, 3, 4}

RECURSIVE IsPowerOfTwo(_)
IsPowerOfTwo(n) == n = 1 \/ (n > 1 /\ n % 2 = 0 /\ IsPowerOfTwo(n \div 2))

ErrorEngines == {"affect", "pixels_rgb", "pixels_mono"}
Engines == ErrorEngines \cup {"basic_mono", "fs_mono", "bayer"}

\* utils/numops.rs map_to_2d
map_to_2d(cell_no, xd) == <<cell_no % xd, cell_no \div xd>>

\* u8ops average(pixel.channels()) cast to an integer
average(c) == (c[1] + c[2] + c[3]) \div 3

\* `(x as i64 + off as i64) as usize / as u32`: a negative sum wraps to a
\* value near the top of the unsigned range.  2^32 does not fit the model's
\* integers; the wrap is taken modulo 2^31 - 1, which likewise sends every
\* negative sum above any image dimension.
UNSIGNED_WRAP == 2147483647

AsUnsigned(n) == n % UNSIGNED_WRAP

\* first index of the pixel loop: 0 for the nested 0..ydim / 0..xdim loops
\* and the pixel iterators, xdim for `for i in xdim..(xdim * ydim)`.
first_index(f, xd) == IF f \in {"pixels_rgb", "pixels_mono"} THEN xd ELSE 0

(* --------------------------- Bayer matrix ------------------------------ *)
RECURSIVE Gcd(_, _)
Gcd(a, b) == IF b = 0 THEN a ELSE Gcd(b, a % b)

\* a matrix entry without the final division by the multiplier
Frac_undivided(n, d) == <<n, 1>>

\* a matrix entry is a fraction <<numerator, denominator>> in lowest terms
Frac(n, d) == LET g == Gcd(n, d) IN <<n \div g, d \div g>>

\* dither_matrix with the +2 and +3 blocks exchanged
RECURSIVE dither_matrix_blocks_swapped(_)
dither_matrix_blocks_swapped(n) ==
    IF n = 1 THEN [dim |-> 1, at |-> [rc \in {<<0, 0>>} |-> <<0, 1>>]]
    ELSE LET nested_matrix == dither_matrix_blocks_swapped(n \div 2)
             d == nested_matrix.dim
             multiplier == n * n
             add(rc) == IF rc[1] < d
                        THEN (IF rc[2] < d THEN 0 ELSE 3)
                        ELSE (IF rc[2] < d THEN 2 ELSE 1)
             inner(rc) == nested_matrix.at[<<rc[1] % d, rc[2] % d>>]
         IN  [dim |-> 2 * d,
              at  |-> [rc \in (0..(2 * d - 1)) \X (0..(2 * d - 1)) |->
                         Frac(multiplier * inner(rc)[1] + add(rc) * inner(rc)[2],
                              inner(rc)[2] * multiplier)]]

\* Bayer::dither_matrix for n >= 1: the recursion is on n / 2 whatever n is,
\* so the result has 2^floor(log2 n) rows and columns.  Entry (row, col):
\* block (top, left) +0, (top, right) +2, (bottom, left) +3,
\* (bottom, right) +1, all over n^2.
RECURSIVE dither_matrix(_)
dither_matrix(n) ==
    IF n = 1 THEN [dim |-> 1, at |-> [rc \in {<<0, 0>>} |-> <<0, 1>>]]
    ELSE LET nested_matrix == dither_matrix(n \div 2)
             d == nested_matrix.dim
             multiplier == n * n
             add(rc) == IF rc[1] < d
                        THEN (IF rc[2] < d THEN 0 ELSE 2)
                        ELSE (IF rc[2] < d THEN 3 ELSE 1)
             inner(rc) == nested_matrix.at[<<rc[1] % d, rc[2] % d>>]
         IN  [dim |-> 2 * d,
              at  |-> [rc \in (0..(2 * d - 1)) \X (0..(2 * d - 1)) |->
                         Frac(multiplier * inner(rc)[1] + add(rc) * inner(rc)[2],
                              inner(rc)[2] * multiplier)]]

\* the part of dither_matrix(n) that follows the recursive call, given the
\* matrix the call returned
dither_matrix_assemble(n, nested_matrix) ==
    LET d == nested_matrix.dim
        multiplier == n * n
        add(rc) == IF rc[1] < d
                   THEN (IF rc[2] < d THEN 0 ELSE 2)
                   ELSE (IF rc[2] < d THEN 3 ELSE 1)
        inner(rc) == nested_matrix.at[<<rc[1] % d, rc[2] % d>>]
    IN  [dim |-> 2 * d,
         at  |-> [rc \in (0..(2 * d - 1)) \X (0..(2 * d - 1)) |->
                    Frac(multiplier * inner(rc)[1] + add(rc) * inner(rc)[2],
                         inner(rc)[2] * multiplier)]]

\* the matrix read with its two indices exchanged
matrix_get_transposed(m, row, col) ==
    IF row < m.dim /\ col < m.dim THEN m.at[<<col, row>>] ELSE <<0, 1>>

\* matrix.get((row, col)).unwrap_or(&0.0)
matrix_get(m, row, col) ==
    IF row < m.dim /\ col < m.dim THEN m.at[<<row, col>>] ELSE <<0, 1>>

\* Srgb<f32> -> [u8; 3]: clamp to [0, 1], scale by 255 and round
into_format_u8(colour, scale) ==
    <<Clamp((2 * colour[1] + scale) \div (2 * scale), 0, 255),
      Clamp((2 * colour[2] + scale) \div (2 * scale), 0, 255),
      Clamp((2 * colour[3] + scale) \div (2 * scale), 0, 255)>>

Scaled(colour, scale) == <<colour[1] * scale, colour[2] * scale, colour[3] * scale>>

RECURSIVE ScaledPalette(_, _)
ScaledPalette(pal, scale) ==
    IF pal = << >> THEN << >>
    ELSE <<Scaled(Head(pal), scale)>> \o ScaledPalette(Tail(pal), scale)

(* ------------------------------- state --------------------------------- *)
VARIABLES
    fn,            \* the function being run
    pc,            \* "run", "done", "panic"
    xdim, ydim,    \* image dimensions
    source,        \* the image as handed in
    image,         \* the image buffer the pass mutates and returns
    palette,       \* palette of the call
    kernel,        \* the propagator (matrix, portions) of the call
    matrix_size,   \* Bayer matrix size
    cursor,        \* index of the next pixel of the loop
    error,         \* running error of basic_mono_dither
    error_matrix,  \* padded error matrix of floyd_steinberg_mono_dither
    trace,         \* one record per pixel visit, in visiting order
    original,      \* colour handed to a quantizer call
    result         \* what that call returned

vars == <<fn, pc, xdim, ydim, source, image, palette, kernel, matrix_size,
          cursor, error, error_matrix, trace, original, result>>

NoKernel == ErrorPropagator_new("none", << >>, 1)

\* what a quantizer call gave back: nothing yet, or a colour (no quantizer
\* has an error return)
NoResult == [kind |-> "none", value |-> BLACK]

Colour(c) == [kind |-> "colour", value |-> c]

(* ------------------- error propagation into the image ------------------ *)
\* dither/error.rs: pixel[c] as f32 + (error * portion) / portions, clamped
\* to [0, 255] and cast to u8.  Dividing by a zero portion count gives an
\* infinity (clamped to a bound) or NaN (cast to 0).
affect_channel(pixel_c, error_c, portion, portions) ==
    IF portions = 0
    THEN (IF error_c * portion > 0 THEN 255 ELSE 0)
    ELSE Clamp(pixel_c + ((error_c * portion) \div portions), 0, 255)

\* dither/errorpropagate.rs: i32 arithmetic, clamped to 0..255
pixels_channel(pixel_c, error_c, portion, total_portions) ==
    Clamp(pixel_c + TruncDiv(error_c * portion, total_portions), 0, 255)

\* image.get_mut(y_err).and_then(|row| row.get_mut(x_err)) and
\* `x_err < xdim && y_err < ydim`
in_image(x_err, y_err, xd, yd) == x_err < xd /\ y_err < yd

\* the loop over the taps of one pixel; gives the image after the taps, the
\* writes made and whether a division by zero stopped the loop
RECURSIVE propagate(_, _, _, _, _, _, _, _, _, _)
propagate(f, img, xd, yd, x, y, err, k, k_taps, writes) ==
    IF k > Len(k_taps.matrix) THEN [image |-> img, writes |-> writes, panicked |-> FALSE]
    ELSE LET tap == k_taps.matrix[k]
             x_err == AsUnsigned(x + tap[1])
             y_err == AsUnsigned(y + tap[2])
         IN  IF ~in_image(x_err, y_err, xd, yd)
             THEN propagate(f, img, xd, yd, x, y, err, k + 1, k_taps, writes)
             ELSE IF f # "affect" /\ k_taps.portions = 0
             THEN [image |-> img, writes |-> writes, panicked |-> TRUE]
             ELSE LET old == img[<<x_err, y_err>>]
                      new == IF f = "affect"
                             THEN <<affect_channel(old[1], err[1], tap[3], k_taps.portions),
                                    affect_channel(old[2], err[2], tap[3], k_taps.portions),
                                    affect_channel(old[3], err[3], tap[3], k_taps.portions)>>
                             ELSE <<pixels_channel(old[1], err[1], tap[3], k_taps.portions),
                                    pixels_channel(old[2], err[2], tap[3], k_taps.portions),
                                    pixels_channel(old[3], err[3], tap[3], k_taps.portions)>>
                      w == [tap |-> tap, to |-> <<x_err, y_err>>,
                            before |-> old, after |-> new]
                  IN  propagate(f, [img EXCEPT ![<<x_err, y_err>>] = new],
                                xd, yd, x, y, err, k + 1, k_taps, Append(writes, w))

(* ------------------------------- Init ---------------------------------- *)
\* A call of one of the dithering functions on an image.
Init ==
    /\ fn \in Engines
    /\ pc = "run"
    /\ \E d \in Dims :
         /\ xdim = d[1]
         /\ ydim = d[2]
         /\ source \in (IF fn = "bayer" THEN BayerImages(d[1], d[2])
                         ELSE Images(d[1], d[2]))
    /\ image = source
    /\ palette \in (IF fn \in {"affect", "pixels_rgb", "bayer"}
                    THEN PassPalettes ELSE {ONE_BIT})
    /\ kernel \in (IF fn = "affect" THEN AllKernels
                   ELSE IF fn \in ErrorEngines
                   THEN ModuleKernels \cup CallerKernels
                   ELSE IF fn = "fs_mono" THEN {FLOYD_STEINBERG}
                   ELSE {NoKernel})
    /\ matrix_size \in (IF fn = "bayer" THEN MatrixSizes ELSE {1})
    /\ cursor = first_index(fn, xdim)
    /\ error = 0
    /\ error_matrix = IF fn = "fs_mono"
                      THEN [p \in (0..xdim) \X (0..ydim) |-> 0]
                      ELSE << >>
    /\ trace = << >>
    /\ original = BLACK
    /\ result = NoResult

Running == pc = "run" /\ xdim # 0 /\ ydim # 0 /\ cursor < xdim * ydim

Visit(x, y, inp, out, err, writes) ==
    [x |-> x, y |-> y, inp |-> inp, out |-> out, err |-> err, writes |-> writes]

(* ---------------------- ErrorPropagator::affect ------------------------ *)
\* one iteration of `for y in 0..ydim { for x in 0..xdim { ... } }`
AffectStep ==
    /\ fn = "affect"
    /\ Running
    /\ LET x == cursor % xdim
           y == cursor \div xdim
           rgb == image[<<x, y>>]
           quantized == quantize_rgb(rgb, palette)
           err == compute_rgb_error(rgb, quantized)
           r == propagate(fn, [image EXCEPT ![<<x, y>>] = into_format_u8(quantized, 1)],
                          xdim, ydim, x, y, err, 1, kernel, << >>)
       IN  /\ image' = r.image
           /\ trace' = Append(trace, Visit(x, y, rgb, quantized, err, r.writes))
    /\ cursor' = cursor + 1
    /\ UNCHANGED <<fn, pc, xdim, ydim, source, palette, kernel, matrix_size,
                   error, error_matrix, original, result>>

(* ---------------- error_propagate_through_pixels_rgb ------------------- *)
\* one iteration of `for i in xdim..(xdim * ydim)`
PixelsRgbStep ==
    /\ fn = "pixels_rgb"
    /\ Running
    /\ LET xy == map_to_2d(cursor, xdim)
           x == xy[1]
           y == xy[2]
           rgb == image[<<x, y>>]
           quantized == RgbPixel_quantize(rgb, palette)
           err == RgbPixel_get_error(rgb, quantized)
           r == propagate(fn, [image EXCEPT ![<<x, y>>] = quantized],
                          xdim, ydim, x, y, err, 1, kernel, << >>)
       IN  /\ image' = r.image
           /\ trace' = Append(trace, Visit(x, y, rgb, quantized, err, r.writes))
           /\ pc' = IF r.panicked THEN "panic" ELSE pc
    /\ cursor' = cursor + 1
    /\ UNCHANGED <<fn, xdim, ydim, source, palette, kernel, matrix_size,
                   error, error_matrix, original, result>>

(* ------------------ error_propagate_through_pixels --------------------- *)
PixelsMonoStep ==
    /\ fn = "pixels_mono"
    /\ Running
    /\ LET xy == map_to_2d(cursor, xdim)
           x == xy[1]
           y == xy[2]
           mono == MonoPixel_from(image[<<x, y>>])
           quantized == MonoPixel_quantize(mono, <<0, 255>>)
           e == MonoPixel_get_error(mono, quantized)
           r == propagate(fn, [image EXCEPT ![<<x, y>>] = Gray(quantized)],
                          xdim, ydim, x, y, Gray(e), 1, kernel, << >>)
       IN  /\ image' = r.image
           /\ trace' = Append(trace, Visit(x, y, Gray(mono), Gray(quantized),
                                           Gray(e), r.writes))
           /\ pc' = IF r.panicked THEN "panic" ELSE pc
    /\ cursor' = cursor + 1
    /\ UNCHANGED <<fn, xdim, ydim, source, palette, kernel, matrix_size,
                   error, error_matrix, original, result>>

(* -------------------------- basic_mono_dither -------------------------- *)
collapser(num) == IF num < 128 THEN 0 ELSE 255

\* one iteration of `for pixel in rgb8_image.pixels_mut()` (row-major)
BasicMonoStep ==
    /\ fn = "basic_mono"
    /\ Running
    /\ LET xy == map_to_2d(cursor, xdim)
           mono == average(image[xy]) + error
           threshold == collapser(mono)
       IN  /\ error' = mono - threshold
           /\ image' = [image EXCEPT ![xy] = Gray(threshold)]
           /\ trace' = Append(trace, Visit(xy[1], xy[2], Gray(mono), Gray(threshold),
                                           Gray(mono - threshold), << >>))
    /\ cursor' = cursor + 1
    /\ UNCHANGED <<fn, pc, xdim, ydim, source, palette, kernel, matrix_size,
                   error_matrix, original, result>>

(* --------------------- floyd_steinberg_mono_dither --------------------- *)
\* one iteration of `for (x, y, pixel) in rgb8_image.enumerate_pixels_mut()`
FsMonoStep ==
    /\ fn = "fs_mono"
    /\ Running
    /\ LET xy == map_to_2d(cursor, xdim)
           xs == xy[1]
           ys == xy[2]
           mono == average(image[xy]) + error_matrix[<<xs, ys>>]
           threshold == collapser(mono)
           e == mono - threshold
           w(tap, to) == [tap |-> tap, to |-> to,
                          before |-> Gray(error_matrix[to]),
                          after |-> Gray(error_matrix[to] + TruncDiv(e * tap[3], 16))]
           w1 == <<w(<<1, 0, 7>>, <<xs + 1, ys>>)>>
           w2 == IF xs > 0 THEN <<w(<<-1, 1, 5>>, <<xs - 1, ys + 1>>)>> ELSE << >>
           w3 == <<w(<<0, 1, 3>>, <<xs, ys + 1>>), w(<<1, 1, 1>>, <<xs + 1, ys + 1>>)>>
           ws == w1 \o w2 \o w3
           written(p) == {k \in 1..Len(ws) : ws[k].to = p}
       IN  /\ error_matrix' =
                 [p \in DOMAIN error_matrix |->
                    IF written(p) = {} THEN error_matrix[p]
                    ELSE ws[CHOOSE k \in written(p) : TRUE].after[1]]
           /\ image' = [image EXCEPT ![xy] = Gray(threshold)]
           /\ trace' = Append(trace, Visit(xs, ys, Gray(mono), Gray(threshold), Gray(e), ws))
    /\ cursor' = cursor + 1
    /\ UNCHANGED <<fn, pc, xdim, ydim, source, palette, kernel, matrix_size,
                   error, original, result>>

(* ----------------------------- Bayer::affect --------------------------- *)
\* one iteration of `for y in 0..ydim { for x in 0..xdim { ... } }`:
\* offset = (1/3) * (threshold - 0.5) added to every channel.  With the
\* threshold a / q the perturbed channel is (c * 2q + 85 * (2a - q)) over
\* 255 * 2q.
\* a loop body that adds the current value of the pixel on the left to the
\* pixel before perturbing it
bayer_pixel_plus_left(img, x, y, size, pal) ==
    LET matrix == dither_matrix(size)
        threshold == matrix_get(matrix, x % size, y % size)
        scale == 2 * threshold[2]
        offset == 85 * (2 * threshold[1] - threshold[2])
        left == IF x > 0 THEN img[<<x - 1, y>>] ELSE BLACK
        rgb == <<img[<<x, y>>][1] + left[1], img[<<x, y>>][2] + left[2],
                 img[<<x, y>>][3] + left[3]>>
        color == <<rgb[1] * scale + offset, rgb[2] * scale + offset,
                   rgb[3] * scale + offset>>
        quantized == quantize_colour(color, ScaledPalette(pal, scale), scale)
    IN  into_format_u8(quantized, scale)

\* the body of the loop for pixel (x, y) of img: the new value of the pixel
bayer_pixel(img, x, y, size, pal) ==
    LET matrix == dither_matrix(size)
        threshold == matrix_get(matrix, x % size, y % size)
        scale == 2 * threshold[2]
        offset == 85 * (2 * threshold[1] - threshold[2])
        rgb == img[<<x, y>>]
        color == <<rgb[1] * scale + offset, rgb[2] * scale + offset,
                   rgb[3] * scale + offset>>
        quantized == quantize_colour(color, ScaledPalette(pal, scale), scale)
    IN  into_format_u8(quantized, scale)

\* `let matrix = Self::dither_matrix(self.matrix_size)` with size 0: the
\* recursion on n / 2 never reaches 1, the call never returns (the stack
\* overflows) and no pixel is touched
BayerOverflow ==
    /\ fn = "bayer"
    /\ pc = "run"
    /\ matrix_size = 0
    /\ pc' = "panic"
    /\ UNCHANGED <<fn, xdim, ydim, source, image, palette, kernel, matrix_size,
                   cursor, error, error_matrix, trace, original, result>>

BayerStep ==
    /\ fn = "bayer"
    /\ matrix_size # 0
    /\ Running
    /\ LET x == cursor % xdim
           y == cursor \div xdim
           out == bayer_pixel(image, x, y, matrix_size, palette)
       IN  /\ image' = [image EXCEPT ![<<x, y>>] = out]
           /\ trace' = Append(trace, Visit(x, y, image[<<x, y>>], out, <<0, 0, 0>>, << >>))
    /\ cursor' = cursor + 1
    /\ UNCHANGED <<fn, pc, xdim, ydim, source, palette, kernel, matrix_size,
                   error, error_matrix, original, result>>

\* the whole pass `for y in 0..ydim { for x in 0..xdim { ... } }` from pixel
\* index i on: the image it leaves
RECURSIVE bayer_affect(_, _, _, _, _, _)
bayer_affect(img, i, xd, yd, size, pal) ==
    IF xd = 0 \/ i >= xd * yd THEN img
    ELSE bayer_affect([img EXCEPT ![<<i % xd, i \div xd>>] =
                           bayer_pixel(img, i % xd, i \div xd, size, pal)],
                      i + 1, xd, yd, size, pal)

(* ------------------------------- return -------------------------------- *)
\* the loop is over (or the image is empty): the function returns `image`
Return ==
    /\ fn \in Engines
    /\ ~(fn = "bayer" /\ matrix_size = 0)
    /\ pc = "run"
    /\ (xdim = 0 \/ ydim = 0 \/ cursor >= xdim * ydim)
    /\ pc' = "done"
    /\ UNCHANGED <<fn, xdim, ydim, source, image, palette, kernel, matrix_size,
                   cursor, error, error_matrix, trace, original, result>>

Next ==
    \/ AffectStep
    \/ PixelsRgbStep
    \/ PixelsMonoStep
    \/ BasicMonoStep
    \/ FsMonoStep
    \/ BayerOverflow
    \/ BayerStep
    \/ Return

Spec == Init /\ [][Next]_vars

(* ------------- the ordered pass with its pixels in any order ----------- *)
\* positions whose loop body has run
Visited == {<<trace[k].x, trace[k].y>> : k \in 1..Len(trace)}

InitP ==
    /\ Init
    /\ fn = "bayer"
    /\ xdim * ydim <= MaxPermPixels

\* the loop body of Bayer::affect run on any pixel it has not run on yet
BayerAnyStep ==
    /\ fn = "bayer"
    /\ matrix_size # 0
    /\ pc = "run"
    /\ \E p \in Pos(xdim, ydim) \ Visited :
          LET out == bayer_pixel(image, p[1], p[2], matrix_size, palette)
          IN  /\ image' = [image EXCEPT ![p] = out]
              /\ trace' = Append(trace, Visit(p[1], p[2], image[p], out, <<0, 0, 0>>, << >>))
    /\ cursor' = cursor + 1
    /\ UNCHANGED <<fn, pc, xdim, ydim, source, palette, kernel, matrix_size,
                   error, error_matrix, original, result>>

NextP ==
    \/ BayerOverflow
    \/ BayerAnyStep
    \/ Return

SpecP == InitP /\ [][NextP]_vars

(* --------------------- the quantizers on their own --------------------- *)
\* colours handed to a quantizer; -40 and 300 lie outside the channel range
\* (an f32 colour after a Bayer offset), the rest are u8 values
QReds == {-40, 0, 100, 128, 255, 300}
QColours == {<<r, g, b>> : r \in QReds, g \in {0, 255}, b \in {0, 255}}

PalColours == {BLACK, WHITE, <<200, 0, 0>>, <<190, 0, 0>>, <<0, 0, 255>>}

RECURSIVE SeqsUpTo(_, _)
SeqsUpTo(S, n) ==
    IF n = 0 THEN {<< >>}
    ELSE LET shorter == SeqsUpTo(S, n - 1)
         IN  shorter \cup {Append(q, e) : q \in shorter, e \in S}

QPalettes == SeqsUpTo(PalColours, MaxPalLen)

Range(q) == {q[k] : k \in 1..Len(q)}

IsU8Colour(c) == \A k \in 1..3 : c[k] \in 0..255

IsGray(c) == c[1] = c[2] /\ c[2] = c[3]

RECURSIVE Levels(_)
Levels(pal) == IF pal = << >> THEN << >> ELSE <<Head(pal)[1]>> \o Levels(Tail(pal))

InitQ ==
    /\ fn = "none"
    /\ pc = "call"
    /\ original \in QColours
    /\ palette \in QPalettes
    /\ result = NoResult
    /\ xdim = 0
    /\ ydim = 0
    /\ source = << >>
    /\ image = << >>
    /\ kernel = NoKernel
    /\ matrix_size = 1
    /\ cursor = 0
    /\ error = 0
    /\ error_matrix = << >>
    /\ trace = << >>

Returned(f, value) ==
    /\ pc = "call"
    /\ fn' = f
    /\ result' = Colour(value)
    /\ pc' = "done"
    /\ UNCHANGED <<xdim, ydim, source, image, palette, kernel, matrix_size,
                   cursor, error, error_matrix, trace, original>>

\* quantize_rgb(original, palette): any f32 colour
CallQuantizeRgb == Returned("quantize_rgb", quantize_rgb(original, palette))

\* RgbPixel(original).quantize(palette): u8 channels
CallRgbPixelQuantize ==
    /\ IsU8Colour(original)
    /\ Returned("RgbPixel_quantize", RgbPixel_quantize(original, palette))

\* MonoPixel::from(original).quantize(palette) with a palette of gray levels
CallMonoPixelQuantize ==
    /\ IsU8Colour(original)
    /\ \A k \in 1..Len(palette) : IsGray(palette[k])
    /\ Returned("MonoPixel_quantize",
                Gray(MonoPixel_quantize(MonoPixel_from(original), Levels(palette))))

\* get_closest_color_to(original, palette): u8 channels
CallGetClosestColorTo ==
    /\ IsU8Colour(original)
    /\ Returned("get_closest_color_to", get_closest_color_to(original, palette))

NextQ ==
    \/ CallQuantizeRgb
    \/ CallRgbPixelQuantize
    \/ CallMonoPixelQuantize
    \/ CallGetClosestColorTo

SpecQ == InitQ /\ [][NextQ]_vars

(* --------------------- the distances on their own ---------------------- *)
\* what a distance call gave back
Distance(d) == [kind |-> "distance", value |-> d]

\* a distance between `original` and the one entry of `palette`
InitD ==
    /\ fn = "none"
    /\ pc = "call"
    /\ original \in QColours
    /\ palette \in {<<b>> : b \in PalColours}
    /\ result = NoResult
    /\ xdim = 0
    /\ ydim = 0
    /\ source = << >>
    /\ image = << >>
    /\ kernel = NoKernel
    /\ matrix_size = 1
    /\ cursor = 0
    /\ error = 0
    /\ error_matrix = << >>
    /\ trace = << >>

Evaluated(f, d) ==
    /\ pc = "call"
    /\ fn' = f
    /\ result' = Distance(d)
    /\ pc' = "done"
    /\ UNCHANGED <<xdim, ydim, source, image, palette, kernel, matrix_size,
                   cursor, error, error_matrix, trace, original>>

\* RgbPixel(original).get_difference(&entry)
CallGetDifference ==
    /\ IsU8Colour(original)
    /\ Evaluated("get_difference", get_difference(original, palette[1]))

\* rgb_euclidean(original, entry)
CallRgbEuclidean ==
    Evaluated("rgb_euclidean", rgb_euclidean(original, palette[1]))

\* rgb_weighted_euclidean(original, entry)
CallRgbWeightedEuclidean ==
    Evaluated("rgb_weighted_euclidean", rgb_weighted_euclidean(original, palette[1], 1))

\* the distance evaluated by quantize_colour(original, [entry], ..)
CallQuantizeColourDistance ==
    Evaluated("quantize_colour", quantize_colour_distance(original, palette[1], 1))

\* the distance evaluated by RgbPixel(original).quantize([entry])
CallRgbPixelQuantizeDistance ==
    /\ IsU8Colour(original)
    /\ Evaluated("RgbPixel_quantize", RgbPixel_quantize_distance(original, palette[1]))

NextD ==
    \/ CallGetDifference
    \/ CallRgbEuclidean
    \/ CallRgbWeightedEuclidean
    \/ CallQuantizeColourDistance
    \/ CallRgbPixelQuantizeDistance

SpecD == InitD /\ [][NextD]_vars

(* ----------------------- Bayer::dither_matrix calls -------------------- *)
\* sizes handed to dither_matrix
BuildSizes == {0, 1, 2, 3, 4, 5, 6, 8}

\* one call of dither_matrix and the matrix it returned
Built(n, m) == [n |-> n, matrix |-> m]

\* a sequence of calls of dither_matrix; trace keeps what each returned
InitB ==
    /\ fn = "dither_matrix"
    /\ pc = "build"
    /\ trace = << >>
    /\ matrix_size = 1
    /\ original = BLACK
    /\ palette = << >>
    /\ result = NoResult
    /\ xdim = 0
    /\ ydim = 0
    /\ source = << >>
    /\ image = << >>
    /\ kernel = NoKernel
    /\ cursor = 0
    /\ error = 0
    /\ error_matrix = << >>

\* a call whose result depends on how many calls were made before it
CallDitherMatrix_counting ==
    /\ pc = "build"
    /\ Len(trace) < MaxCalls
    /\ \E n \in BuildSizes \ {0} :
          /\ matrix_size' = n
          /\ trace' = Append(trace,
                 Built(n, dither_matrix(IF trace = << >> THEN n ELSE 2 * n)))
    /\ UNCHANGED <<fn, pc, xdim, ydim, source, image, palette, kernel,
                   cursor, error, error_matrix, original, result>>

\* Self::dither_matrix(n), n >= 1: the function has no receiver and touches
\* no static, so the matrix is a function of n alone
CallDitherMatrix ==
    /\ pc = "build"
    /\ Len(trace) < MaxCalls
    /\ \E n \in BuildSizes \ {0} :
          /\ matrix_size' = n
          /\ trace' = Append(trace, Built(n, dither_matrix(n)))
    /\ UNCHANGED <<fn, pc, xdim, ydim, source, image, palette, kernel,
                   cursor, error, error_matrix, original, result>>

\* Self::dither_matrix(0): the recursion never reaches the base case
CallDitherMatrixZero ==
    /\ pc = "build"
    /\ matrix_size' = 0
    /\ pc' = "overflow"
    /\ UNCHANGED <<fn, xdim, ydim, source, image, palette, kernel,
                   cursor, error, error_matrix, trace, original, result>>

NextB ==
    \/ CallDitherMatrix
    \/ CallDitherMatrixZero

SpecB == InitB /\ [][NextB]_vars

(* ============ hand-unrolled mono dithers (dither/*.rs) ================== *)
\* Each function allocates `vec![vec![0 as i64; xdim + pad]; ydim + pad]`
\* and adds (error * num) / den to error_matrix[ys + dy][xs + dx] for each of
\* its statements, a statement under `if xs > 0` or `if xs > 1` only from
\* that column on.  A statement is <<dx, dy, num, den, first column>>, in
\* the order of the source.
floyd_steinberg_mono_dither ==
    [name |-> "floyd_steinberg_mono_dither", pad |-> 1,
     statements |-> << <<1, 0, 7, 16, 0>>,
                       <<-1, 1, 5, 16, 1>>,
                       <<0, 1, 3, 16, 0>>,
                       <<1, 1, 1, 16, 0>> >>]

\* the function with the weights of its first two statements exchanged
jarvis_judice_ninke_mono_dither_exchanged ==
    [name |-> "jarvis_judice_ninke_mono_dither", pad |-> 2,
     statements |-> << <<1, 0, 5, 48, 0>>, <<2, 0, 7, 48, 0>>,
                       <<-2, 1, 3, 48, 2>>, <<-2, 2, 1, 48, 2>>,
                       <<-1, 1, 5, 48, 1>>, <<-1, 2, 3, 48, 1>>,
                       <<0, 1, 7, 48, 0>>, <<0, 2, 5, 48, 0>>,
                       <<1, 1, 5, 48, 0>>, <<1, 2, 3, 48, 0>>,
                       <<2, 1, 3, 48, 0>>, <<2, 2, 1, 48, 0>> >>]

jarvis_judice_ninke_mono_dither ==
    [name |-> "jarvis_judice_ninke_mono_dither", pad |-> 2,
     statements |-> << <<1, 0, 7, 48, 0>>, <<2, 0, 5, 48, 0>>,
                       <<-2, 1, 3, 48, 2>>, <<-2, 2, 1, 48, 2>>,
                       <<-1, 1, 5, 48, 1>>, <<-1, 2, 3, 48, 1>>,
                       <<0, 1, 7, 48, 0>>, <<0, 2, 5, 48, 0>>,
                       <<1, 1, 5, 48, 0>>, <<1, 2, 3, 48, 0>>,
                       <<2, 1, 3, 48, 0>>, <<2, 2, 1, 48, 0>> >>]

stucki_mono_dither ==
    [name |-> "stucki_mono_dither", pad |-> 2,
     statements |-> << <<1, 0, 8, 42, 0>>, <<2, 0, 4, 42, 0>>,
                       <<-2, 1, 2, 42, 2>>, <<-2, 2, 1, 42, 2>>,
                       <<-1, 1, 4, 42, 1>>, <<-1, 2, 2, 42, 1>>,
                       <<0, 1, 8, 42, 0>>, <<0, 2, 4, 42, 0>>,
                       <<1, 1, 4, 42, 0>>, <<1, 2, 2, 42, 0>>,
                       <<2, 1, 2, 42, 0>>, <<2, 2, 1, 42, 0>> >>]

\* the function with an error matrix of (xdim + 1) by (ydim + 1) cells
atkinson_mono_dither_pad_one ==
    [name |-> "atkinson_mono_dither", pad |-> 1,
     statements |-> << <<1, 0, 1, 8, 0>>, <<2, 0, 1, 8, 0>>,
                       <<-1, 1, 1, 8, 1>>,
                       <<0, 1, 1, 8, 0>>, <<1, 1, 1, 8, 0>>,
                       <<0, 2, 1, 8, 0>> >>]

\* `error_prop = error / 8` is added by each of the six statements
atkinson_mono_dither ==
    [name |-> "atkinson_mono_dither", pad |-> 2,
     statements |-> << <<1, 0, 1, 8, 0>>, <<2, 0, 1, 8, 0>>,
                       <<-1, 1, 1, 8, 1>>,
                       <<0, 1, 1, 8, 0>>, <<1, 1, 1, 8, 0>>,
                       <<0, 2, 1, 8, 0>> >>]

burkes_mono_dither ==
    [name |-> "burkes_mono_dither", pad |-> 2,
     statements |-> << <<1, 0, 8, 32, 0>>, <<2, 0, 4, 32, 0>>,
                       <<-2, 1, 2, 32, 2>>,
                       <<-1, 1, 4, 32, 1>>,
                       <<0, 1, 8, 32, 0>>, <<1, 1, 4, 32, 0>>,
                       <<2, 1, 2, 32, 0>> >>]

sierra_mono_dither ==
    [name |-> "sierra_mono_dither", pad |-> 2,
     statements |-> << <<1, 0, 5, 32, 0>>, <<2, 0, 3, 32, 0>>,
                       <<-2, 1, 2, 32, 2>>,
                       <<-1, 1, 4, 32, 1>>, <<-1, 2, 2, 32, 1>>,
                       <<0, 1, 5, 32, 0>>, <<0, 2, 3, 32, 0>>,
                       <<1, 1, 4, 32, 0>>, <<1, 2, 2, 32, 0>>,
                       <<2, 1, 2, 32, 0>> >>]

two_row_sierra_mono_dither ==
    [name |-> "two_row_sierra_mono_dither", pad |-> 2,
     statements |-> << <<1, 0, 4, 16, 0>>, <<2, 0, 3, 16, 0>>,
                       <<-2, 1, 1, 16, 2>>,
                       <<-1, 1, 2, 16, 1>>,
                       <<0, 1, 3, 16, 0>>, <<1, 1, 2, 16, 0>>,
                       <<2, 1, 1, 16, 0>> >>]

sierra_lite_mono_dither ==
    [name |-> "sierra_lite_mono_dither", pad |-> 2,
     statements |-> << <<1, 0, 2, 4, 0>>,
                       <<-1, 1, 1, 4, 1>>,
                       <<0, 1, 1, 4, 0>> >>]

MonoDithers ==
    {floyd_steinberg_mono_dither, jarvis_judice_ninke_mono_dither,
     stucki_mono_dither, atkinson_mono_dither, burkes_mono_dither,
     sierra_mono_dither, two_row_sierra_mono_dither, sierra_lite_mono_dither}

MonoDitherNames == {f.name : f \in MonoDithers}

MonoDitherOf(name) == CHOOSE f \in MonoDithers : f.name = name

\* the statements of one loop body that run in column xs, each as the write
\* it makes: cell, value found, value stored
RECURSIVE mono_writes(_, _, _, _, _, _, _)
mono_writes(f, matrix, xs, ys, e, k, writes) ==
    IF k > Len(f.statements) THEN writes
    ELSE LET st == f.statements[k]
             to == <<xs + st[1], ys + st[2]>>
         IN  IF xs < st[5]
             THEN mono_writes(f, matrix, xs, ys, e, k + 1, writes)
             ELSE IF to \notin DOMAIN matrix
             THEN Append(writes, [tap |-> <<st[1], st[2], st[3]>>, den |-> st[4],
                                  to |-> to, in_bounds |-> FALSE,
                                  before |-> 0, after |-> 0])
             ELSE LET new == matrix[to] + TruncDiv(e * st[3], st[4])
                  IN  mono_writes(f, [matrix EXCEPT ![to] = new], xs, ys, e, k + 1,
                                  Append(writes,
                                         [tap |-> <<st[1], st[2], st[3]>>, den |-> st[4],
                                          to |-> to, in_bounds |-> TRUE,
                                          before |-> matrix[to], after |-> new]))

RECURSIVE store_writes(_, _, _)
store_writes(matrix, writes, k) ==
    IF k > Len(writes) THEN matrix
    ELSE store_writes(IF writes[k].in_bounds
                      THEN [matrix EXCEPT ![writes[k].to] = writes[k].after]
                      ELSE matrix, writes, k + 1)

\* an image large enough for a pixel whose taps all land inside it
InteriorW == 4

InteriorH == 3

InteriorImages ==
    {[p \in Pos(InteriorW, InteriorH) |-> Gray(v)] : v \in PixelLevels \cup MidGrays}

\* A call of one of the hand-unrolled mono dithers on an image.
InitU ==
    /\ fn \in MonoDitherNames
    /\ pc = "run"
    /\ \/ \E d \in Dims :
            /\ xdim = d[1]
            /\ ydim = d[2]
            /\ source \in Images(d[1], d[2])
       \/ /\ xdim = InteriorW
          /\ ydim = InteriorH
          /\ source \in InteriorImages
    /\ image = source
    /\ palette = ONE_BIT
    /\ kernel = NoKernel
    /\ matrix_size = 1
    /\ cursor = 0
    /\ error = 0
    /\ error_matrix = [p \in (0..(xdim + MonoDitherOf(fn).pad - 1))
                             \X (0..(ydim + MonoDitherOf(fn).pad - 1)) |-> 0]
    /\ trace = << >>
    /\ original = BLACK
    /\ result = NoResult

\* one iteration of `for (x, y, pixel) in rgb8_image.enumerate_pixels_mut()`;
\* an index outside the matrix stops the call before the pixel is stored
MonoDitherStep ==
    /\ fn \in MonoDitherNames
    /\ Running
    /\ LET f == MonoDitherOf(fn)
           xy == map_to_2d(cursor, xdim)
           xs == xy[1]
           ys == xy[2]
           mono == average(image[xy]) + error_matrix[<<xs, ys>>]
           threshold == collapser(mono)
           e == mono - threshold
           ws == mono_writes(f, error_matrix, xs, ys, e, 1, << >>)
           failed == \E k \in 1..Len(ws) : ~ws[k].in_bounds
       IN  /\ error_matrix' = store_writes(error_matrix, ws, 1)
           /\ image' = IF failed THEN image ELSE [image EXCEPT ![xy] = Gray(threshold)]
           /\ pc' = IF failed THEN "panic" ELSE pc
           /\ trace' = Append(trace,
                              [x |-> xs, y |-> ys, read |-> <<xs, ys>>,
                               inp |-> mono, out |-> threshold, err |-> e,
                               writes |-> ws])
    /\ cursor' = cursor + 1
    /\ UNCHANGED <<fn, xdim, ydim, source, palette, kernel, matrix_size,
                   error, original, result>>

MonoDitherReturn ==
    /\ fn \in MonoDitherNames
    /\ pc = "run"
    /\ (xdim = 0 \/ ydim = 0 \/ cursor >= xdim * ydim)
    /\ pc' = "done"
    /\ UNCHANGED <<fn, xdim, ydim, source, image, palette, kernel, matrix_size,
                   cursor, error, error_matrix, trace, original, result>>

NextU == MonoDitherStep \/ MonoDitherReturn

SpecU == InitU /\ [][NextU]_vars

(* ============ the type-state of ErrorPropagator (dither/error.rs) ======= *)
\* Option<Vec<Srgb>>
None == [some |-> FALSE, value |-> << >>]

Some(v) == [some |-> TRUE, value |-> v]

\* ErrorPropagator::new gives an ErrorPropagator<Base> with `palette: None`
ErrorPropagator_Base(k) ==
    [name |-> k.name, matrix |-> k.matrix, portions |-> k.portions,
     palette |-> None, state |-> "Base", by |-> "new"]

\* a with_palette that copies the palette field of the receiver
with_palette_copied(self, pal) ==
    [name |-> self.name, matrix |-> self.matrix, portions |-> self.portions,
     palette |-> self.palette, state |-> "WithPalette", by |-> "with_palette"]

\* with_palette, defined for every state S, gives an
\* ErrorPropagator<WithPalette> with `palette: Some(palette)`
with_palette(self, pal) ==
    [name |-> self.name, matrix |-> self.matrix, portions |-> self.portions,
     palette |-> Some(pal), state |-> "WithPalette", by |-> "with_palette"]

\* A program that builds propagators and applies them; trace holds the
\* propagators built so far.
InitT ==
    /\ fn = "ErrorPropagator"
    /\ pc = "typestate"
    /\ trace = << >>
    /\ matrix_size = 1
    /\ original = BLACK
    /\ palette = << >>
    /\ result = NoResult
    /\ xdim = 0
    /\ ydim = 0
    /\ source = << >>
    /\ image = << >>
    /\ kernel = NoKernel
    /\ cursor = 0
    /\ error = 0
    /\ error_matrix = << >>

\* ErrorPropagator::new(name, matrix, portions)
CallNew ==
    /\ pc = "typestate"
    /\ Len(trace) < MaxCalls
    /\ \E k \in AllKernels :
          trace' = Append(trace, ErrorPropagator_Base(ErrorPropagator_new(k.name, k.matrix, k.portions)))
    /\ UNCHANGED <<fn, pc, xdim, ydim, source, image, palette, kernel, matrix_size,
                   cursor, error, error_matrix, original, result>>

\* propagator.with_palette(palette) on a propagator in any state
CallWithPalette ==
    /\ pc = "typestate"
    /\ Len(trace) < MaxCalls
    /\ \E i \in 1..Len(trace) : \E pal \in PassPalettes :
          trace' = Append(trace, with_palette(trace[i], pal))
    /\ UNCHANGED <<fn, pc, xdim, ydim, source, image, palette, kernel, matrix_size,
                   cursor, error, error_matrix, original, result>>

\* propagator.affect(image): Effect is implemented for
\* ErrorPropagator<WithPalette> alone, so the call compiles for no other
\* state; `self.palette.as_ref().unwrap()` panics on None
CallAffect ==
    /\ pc = "typestate"
    /\ \E i \in 1..Len(trace) :
          /\ trace[i].state = "WithPalette"
          /\ cursor' = i
          /\ IF trace[i].palette.some
             THEN /\ palette' = trace[i].palette.value
                  /\ result' = [kind |-> "unwrapped", value |-> BLACK]
                  /\ pc' = pc
             ELSE /\ palette' = palette
                  /\ result' = [kind |-> "unwrap on None", value |-> BLACK]
                  /\ pc' = "panic"
    /\ UNCHANGED <<fn, xdim, ydim, source, image, kernel, matrix_size,
                   error, error_matrix, trace, original>>

NextT ==
    \/ CallNew
    \/ CallWithPalette
    \/ CallAffect

SpecT == InitT /\ [][NextT]_vars

(* ========= the recursion of Bayer::dither_matrix, call by call ========= *)
\* sizes a caller passes to Bayer::new
MaxBuildSize == 16

\* recursive calls the stack of the process has room for
MaxDepth == 8

\* One call of dither_matrix(matrix_size): cursor is the argument of the
\* innermost call, error the number of recursive calls made, trace the
\* arguments of the calls waiting for their nested matrix, error_matrix the
\* matrix returned last.
InitR ==
    /\ fn = "dither_matrix_call"
    /\ pc = "descend"
    /\ matrix_size \in 0..MaxBuildSize
    /\ cursor = matrix_size
    /\ error = 0
    /\ trace = << >>
    /\ error_matrix = << >>
    /\ original = BLACK
    /\ palette = << >>
    /\ result = NoResult
    /\ xdim = 0
    /\ ydim = 0
    /\ source = << >>
    /\ image = << >>
    /\ kernel = NoKernel

\* `if n == 1 { return Array::zeros((1, 1)) }`
DitherMatrixBase ==
    /\ pc = "descend"
    /\ cursor = 1
    /\ error_matrix' = [dim |-> 1, at |-> [rc \in {<<0, 0>>} |-> <<0, 1>>]]
    /\ pc' = "ascend"
    /\ UNCHANGED <<fn, xdim, ydim, source, image, palette, kernel, matrix_size,
                   cursor, error, trace, original, result>>

\* `let nested_matrix = Self::dither_matrix(n / 2)` for every n other than 1
DitherMatrixRecurse ==
    /\ pc = "descend"
    /\ cursor # 1
    /\ error < MaxDepth
    /\ trace' = <<cursor>> \o trace
    /\ cursor' = cursor \div 2
    /\ error' = error + 1
    /\ UNCHANGED <<fn, pc, xdim, ydim, source, image, palette, kernel, matrix_size,
                   error_matrix, original, result>>

\* the recursive call for which the stack has no room left: the process is
\* stopped by the stack guard and the call returns to nobody
DitherMatrixStackOverflow ==
    /\ pc = "descend"
    /\ cursor # 1
    /\ error >= MaxDepth
    /\ pc' = "overflow"
    /\ UNCHANGED <<fn, xdim, ydim, source, image, palette, kernel, matrix_size,
                   cursor, error, error_matrix, trace, original, result>>

\* the rest of the body of a waiting call, once its nested matrix is there
DitherMatrixAssemble ==
    /\ pc = "ascend"
    /\ trace # << >>
    /\ error_matrix' = dither_matrix_assemble(Head(trace), error_matrix)
    /\ cursor' = Head(trace)
    /\ trace' = Tail(trace)
    /\ UNCHANGED <<fn, pc, xdim, ydim, source, image, palette, kernel, matrix_size,
                   error, original, result>>

\* the outermost call returns its matrix
DitherMatrixReturn ==
    /\ pc = "ascend"
    /\ trace = << >>
    /\ pc' = "returned"
    /\ UNCHANGED <<fn, xdim, ydim, source, image, palette, kernel, matrix_size,
                   cursor, error, error_matrix, trace, original, result>>

NextR ==
    \/ DitherMatrixBase
    \/ DitherMatrixRecurse
    \/ DitherMatrixStackOverflow
    \/ DitherMatrixAssemble
    \/ DitherMatrixReturn

\* the function runs to its end without waiting for anything
SpecR == InitR /\ [][NextR]_vars /\ WF_vars(NextR)

(* ================= RGBA wrappers of an effect (effect.rs) =============== *)
\* get_dimensions_of_matrix(&item): the length of the first row and the
\* number of rows of a rectangular matrix, (0, 0) for an empty one
get_dimensions_of_matrix(item) ==
    <<Cardinality({p \in DOMAIN item : p[2] = 0}),
      Cardinality({p \in DOMAIN item : p[1] = 0})>>

\* effects on one RGB pixel a caller implements
PixelEffects == {"invert", "nearest"}

rgb_pixel_effect(e, rgb) ==
    IF e = "invert" THEN <<255 - rgb[1], 255 - rgb[2], 255 - rgb[3]>>
    ELSE into_format_u8(quantize_rgb(rgb, ONE_BIT), 1)

\* the whole pass of ErrorPropagator::affect from pixel index i on
RECURSIVE error_affect(_, _, _, _, _, _)
error_affect(img, i, xd, yd, k_taps, pal) ==
    IF xd = 0 \/ yd = 0 \/ i >= xd * yd THEN img
    ELSE LET x == i % xd
             y == i \div xd
             rgb == img[<<x, y>>]
             quantized == quantize_rgb(rgb, pal)
             err == compute_rgb_error(rgb, quantized)
             r == propagate("affect", [img EXCEPT ![<<x, y>>] = into_format_u8(quantized, 1)],
                            xd, yd, x, y, err, 1, k_taps, << >>)
         IN  error_affect(r.image, i + 1, xd, yd, k_taps, pal)

\* impl Effect<RgbImageRepr>: the two dithers, and every pixel effect applied
\* to each pixel in turn
rgb_image_effect(e, item, k_taps, size, pal) ==
    LET dims == get_dimensions_of_matrix(item)
    IN  IF e = "ErrorPropagator" THEN error_affect(item, 0, dims[1], dims[2], k_taps, pal)
        ELSE IF e = "Bayer" THEN bayer_affect(item, 0, dims[1], dims[2], size, pal)
        ELSE [p \in DOMAIN item |-> rgb_pixel_effect(e, item[p])]

\* impl Effect<RgbaPixelRepr> for F: Effect<RgbPixelRepr>
rgba_pixel_affect(e, item) ==
    LET rgb == rgb_pixel_effect(e, <<item[1], item[2], item[3]>>)
    IN  <<rgb[1], rgb[2], rgb[3], item[4]>>

\* the wrapper returning the zero-filled alpha of its output buffer
rgba_image_affect_zero_alpha(e, item, k_taps, size, pal) ==
    LET dims == get_dimensions_of_matrix(item)
        cells == (0..(dims[1] - 1)) \X (0..(dims[2] - 1))
        rgb_repr == rgb_image_effect(e, [p \in cells |-> <<item[p][1], item[p][2], item[p][3]>>],
                                     k_taps, size, pal)
    IN  [p \in cells |-> <<rgb_repr[p][1], rgb_repr[p][2], rgb_repr[p][3], 0>>]

\* impl Effect<RgbaImageRepr> for F: Effect<RgbImageRepr>: xs by ys buffers
\* rgb_repr and output, the effect applied to rgb_repr, and each output
\* pixel put together from rgb_repr[y][x] and item[y][x][3]
rgba_image_affect(e, item, k_taps, size, pal) ==
    LET dims == get_dimensions_of_matrix(item)
        cells == (0..(dims[1] - 1)) \X (0..(dims[2] - 1))
        rgb_repr == rgb_image_effect(e, [p \in cells |-> <<item[p][1], item[p][2], item[p][3]>>],
                                     k_taps, size, pal)
    IN  [p \in cells |-> <<rgb_repr[p][1], rgb_repr[p][2], rgb_repr[p][3], item[p][4]>>]

AlphaLevels == {0, 200}

RgbaColours ==
    {<<c[1], c[2], c[3], a>> : c \in {BLACK, Gray(100), <<200, 30, 90>>}, a \in AlphaLevels}

\* A call of an effect on an RGBA pixel (original) or an RGBA image
\* (source); trace names the effect.
InitA ==
    /\ fn \in {"rgba_pixel_affect", "rgba_image_affect"}
    /\ pc = "call"
    /\ IF fn = "rgba_pixel_affect"
       THEN /\ original \in RgbaColours
            /\ xdim = 0 /\ ydim = 0 /\ source = << >>
            /\ \E e \in PixelEffects : trace = <<[effect |-> e]>>
            /\ kernel = NoKernel /\ matrix_size = 1 /\ palette = ONE_BIT
       ELSE /\ original = <<0, 0, 0, 0>>
            /\ \E d \in {dd \in Dims : dd[1] * dd[2] <= MaxPermPixels} :
                  /\ xdim = d[1]
                  /\ ydim = d[2]
                  /\ source \in [Pos(d[1], d[2]) -> RgbaColours]
            /\ \/ /\ trace = <<[effect |-> "ErrorPropagator"]>>
                  /\ kernel \in {FLOYD_STEINBERG, ATKINSON}
                  /\ matrix_size = 1
                  /\ palette \in PassPalettes
               \/ /\ trace = <<[effect |-> "Bayer"]>>
                  /\ kernel = NoKernel
                  /\ matrix_size \in {1, 2}
                  /\ palette \in PassPalettes
               \/ /\ trace = <<[effect |-> "invert"]>>
                  /\ kernel = NoKernel /\ matrix_size = 1 /\ palette = ONE_BIT
    /\ image = source
    /\ result = NoResult
    /\ cursor = 0
    /\ error = 0
    /\ error_matrix = << >>

CallRgbaPixelAffect ==
    /\ fn = "rgba_pixel_affect"
    /\ pc = "call"
    /\ result' = [kind |-> "rgba", value |-> rgba_pixel_affect(trace[1].effect, original)]
    /\ pc' = "done"
    /\ UNCHANGED <<fn, xdim, ydim, source, image, palette, kernel, matrix_size,
                   cursor, error, error_matrix, trace, original>>

CallRgbaImageAffect ==
    /\ fn = "rgba_image_affect"
    /\ pc = "call"
    /\ image' = rgba_image_affect(trace[1].effect, source, kernel, matrix_size, palette)
    /\ pc' = "done"
    /\ UNCHANGED <<fn, xdim, ydim, source, palette, kernel, matrix_size,
                   cursor, error, error_matrix, trace, original, result>>

NextA == CallRgbaPixelAffect \/ CallRgbaImageAffect

SpecA == InitA /\ [][NextA]_vars

(* ============ the gradient-map filter (colour/algorithms.rs) ============ *)
\* A gradient is a sequence of <<colour, threshold>>; a threshold t stands
\* for the f32 t / 255 and a luminance is kept as the sum max + min of the
\* channels, which is 510 times the lightness (rgb_max + rgb_min) / 2 of
\* HslPixel::from.
lightness2(rgb) ==
    LET max(a, b) == IF a > b THEN a ELSE b
        min(a, b) == IF a < b THEN a ELSE b
    IN  max(max(rgb[1], rgb[2]), rgb[3]) + min(min(rgb[1], rgb[2]), rgb[3])

\* sorted.sort_by(|a, b| a.1.partial_cmp(&b.1).unwrap()): a stable sort
RECURSIVE sort_by_threshold(_)
sort_by_threshold(g) ==
    IF g = << >> THEN << >>
    ELSE LET rest == sort_by_threshold(Tail(g))
             before == SelectSeq(rest, LAMBDA e : e[2] < Head(g)[2])
             after == SelectSeq(rest, LAMBDA e : e[2] >= Head(g)[2])
         IN  before \o <<Head(g)>> \o after

\* sorted.iter().position(|(_, threshold)| l < *threshold), counted from 0;
\* -1 stands for None
position(sorted, l2) ==
    LET hits == {i \in 1..Len(sorted) : l2 < 2 * sorted[i][2]}
    IN  IF hits = {} THEN -1
        ELSE (CHOOSE i \in hits : \A j \in hits : i <= j) - 1

\* `.round() as u8` of num / den for num >= 0, den > 0
round_u8(num, den) == Clamp((2 * num + den) \div (2 * den), 0, 255)

\* c_ratio * c + p_ratio * p with c_ratio = 1 - c_dist / (c_dist + p_dist)
\* and p_ratio = 1 - p_dist / (c_dist + p_dist)
gradient_mix(c_rgb, c_th, p_rgb, p_th, l2) ==
    LET c_dist == 2 * c_th - l2
        p_dist == l2 - 2 * p_th
    IN  <<round_u8(p_dist * c_rgb[1] + c_dist * p_rgb[1], c_dist + p_dist),
          round_u8(p_dist * c_rgb[2] + c_dist * p_rgb[2], c_dist + p_dist),
          round_u8(p_dist * c_rgb[3] + c_dist * p_rgb[3], c_dist + p_dist)>>

\* the body of `for pixel in rgb8_image.pixels_mut()`: what becomes of one
\* pixel.  `index - 1` on usize with index = 0 panics in a build with
\* overflow checks and wraps to usize::MAX in one without, where
\* sorted.get gives None.
gradient_map_pixel(rgb, sorted, overflow_checks) ==
    LET l2 == lightness2(rgb)
        index == position(sorted, l2)
    IN  IF index = -1
        THEN [outcome |-> "unmodified", colour |-> rgb]
        ELSE IF index = 0
        THEN (IF overflow_checks
              THEN [outcome |-> "panic", colour |-> rgb]
              ELSE [outcome |-> "assigned", colour |-> sorted[1][1]])
        ELSE [outcome |-> "assigned",
              colour |-> gradient_mix(sorted[index + 1][1], sorted[index + 1][2],
                                      sorted[index][1], sorted[index][2], l2)]

GradientEntries == {<<BLACK, 50>>, <<WHITE, 200>>, <<(<<200, 0, 0>>), 255>>}

Gradients == SeqsUpTo(GradientEntries, MaxPalLen)

\* the profile the crate is built with
BuildProfiles == {"overflow-checks", "wrapping"}

\* A call of apply_gradient_map(image, gradient); palette holds the sorted
\* gradient, result the build profile.
InitG ==
    /\ fn = "apply_gradient_map"
    /\ pc = "run"
    /\ \E d \in {dd \in Dims : dd[1] * dd[2] <= MaxPermPixels} :
          /\ xdim = d[1]
          /\ ydim = d[2]
          /\ source \in [Pos(d[1], d[2]) -> {Gray(v) : v \in PixelLevels}]
    /\ image = source
    /\ \E g \in Gradients : palette = sort_by_threshold(g)
    /\ \E b \in BuildProfiles : result = [kind |-> "profile", value |-> b]
    /\ kernel = NoKernel
    /\ matrix_size = 1
    /\ cursor = 0
    /\ error = 0
    /\ error_matrix = << >>
    /\ trace = << >>
    /\ original = BLACK

\* one iteration of `for pixel in rgb8_image.pixels_mut()`
GradientMapStep ==
    /\ fn = "apply_gradient_map"
    /\ Running
    /\ LET xy == map_to_2d(cursor, xdim)
           r == gradient_map_pixel(image[xy], palette, result.value = "overflow-checks")
       IN  /\ image' = [image EXCEPT ![xy] = r.colour]
           /\ pc' = IF r.outcome = "panic" THEN "panic" ELSE pc
           /\ trace' = Append(trace, [x |-> xy[1], y |-> xy[2], inp |-> image[xy],
                                      out |-> r.colour, outcome |-> r.outcome])
    /\ cursor' = cursor + 1
    /\ UNCHANGED <<fn, xdim, ydim, source, palette, kernel, matrix_size,
                   error, error_matrix, original, result>>

GradientMapReturn ==
    /\ fn = "apply_gradient_map"
    /\ pc = "run"
    /\ (xdim = 0 \/ ydim = 0 \/ cursor >= xdim * ydim)
    /\ pc' = "done"
    /\ UNCHANGED <<fn, xdim, ydim, source, image, palette, kernel, matrix_size,
                   cursor, error, error_matrix, trace, original, result>>

NextG == GradientMapStep \/ GradientMapReturn

SpecG == InitG /\ [][NextG]_vars

(* ============================ properties =============================== *)
VisitPos(v) == <<v.x, v.y>>

\* a position strictly after (x, y) in raster order
LexAfter(to, x, y) == to[2] > y \/ (to[2] = y /\ to[1] > x)

DiffusionEngines == ErrorEngines \cup {"basic_mono", "fs_mono"}

UsesBuiltinKernel == fn \in ErrorEngines => kernel \in BuiltinKernels

RECURSIVE WeightSum(_)
WeightSum(m) == IF m = << >> THEN 0 ELSE Head(m)[3] + WeightSum(Tail(m))

RECURSIVE AddedBy(_, _)
AddedBy(writes, c) ==
    IF writes = << >> THEN 0
    ELSE (Head(writes).after[c] - Head(writes).before[c]) + AddedBy(Tail(writes), c)

TapsInside(m, x, y) ==
    \A k \in 1..Len(m) : <<x + m[k][1], y + m[k][2]>> \in Pos(xdim, ydim)

ValidKernel(k) ==
    /\ k.portions > 0
    /\ \A t \in 1..Len(k.matrix) :
          k.matrix[t][2] > 0 \/ (k.matrix[t][2] = 0 /\ k.matrix[t][1] > 0)

\* C1: the image a dither returns (error diffusion with a built-in kernel,
\* or Bayer with a power-of-two size) has the dimensions of the input and
\* every pixel of it, row 0 included, is an element of the palette.
C1_OutputInPalette ==
    (pc = "done" /\ palette # << >> /\ UsesBuiltinKernel)
    => /\ DOMAIN image = DOMAIN source
       /\ \A p \in DOMAIN image : image[p] \in Range(palette)

\* C2: an error-diffusion pass visits the pixels in raster order and
\* quantizes every pixel exactly once.
C2_RasterOrderOnce ==
    (pc = "done" /\ fn \in DiffusionEngines)
    => /\ Len(trace) = xdim * ydim
       /\ \A k \in 1..Len(trace) : VisitPos(trace[k]) = map_to_2d(k - 1, xdim)

\* C3: with a built-in kernel every error write made while visiting p goes
\* to a pixel strictly after p in raster order; a visited pixel keeps its
\* output value, and every write to a pixel precedes the visit of it.
C3_Causal ==
    (fn \in ErrorEngines \cup {"fs_mono"} /\ kernel \in BuiltinKernels)
    => \A k \in 1..Len(trace) :
          /\ \A j \in 1..Len(trace[k].writes) :
                LexAfter(trace[k].writes[j].to, trace[k].x, trace[k].y)
          /\ image[VisitPos(trace[k])] = trace[k].out
          /\ \A i \in 1..Len(trace) : \A j \in 1..Len(trace[i].writes) :
                trace[i].writes[j].to = VisitPos(trace[k]) => i < k

C3_Witness ==
    /\ fn = "affect" /\ pc = "done" /\ kernel = FLOYD_STEINBERG
    /\ xdim = 3 /\ ydim = 2
    /\ \E k \in 1..Len(trace) : \E j \in 1..Len(trace[k].writes) :
          /\ trace[k].writes[j].before # trace[k].writes[j].after
          /\ \E i \in (k + 1)..Len(trace) : VisitPos(trace[i]) = trace[k].writes[j].to

\* C4: for a non-empty palette every quantizer returns an element of the
\* palette, whatever the colour (in or out of the channel range).
C4_Membership ==
    (pc = "done" /\ palette # << >>) => result.value \in Range(palette)

C4_Witness ==
    /\ pc = "done" /\ fn = "quantize_rgb"
    /\ original[1] = 300
    /\ Len(palette) = 2 /\ palette[1] # palette[2]
    /\ result.value = palette[2]

\* C5: the entry returned for colour C is nearest to C under distance(C, .)
\* (C the first argument, so C's red channel picks the weights), and among
\* the entries at the minimum distance it is the one of smallest index.
C5_NearestFirst ==
    (pc = "done" /\ palette # << >> /\ fn \in {"quantize_rgb", "RgbPixel_quantize"})
    => \E k \in 1..Len(palette) :
          /\ result.value = palette[k]
          /\ \A j \in 1..Len(palette) :
                weighed_euclidean_diff(original, palette[k])
                    <= weighed_euclidean_diff(original, palette[j])
          /\ \A j \in 1..(k - 1) :
                weighed_euclidean_diff(original, palette[j])
                    > weighed_euclidean_diff(original, palette[k])

\* C6: a tap whose target is outside the image adds to no pixel: every
\* write lands on (x + dx, y + dy) inside the image, and in the basic
\* dither the first pixel of a row is quantized without the error of the
\* last pixel of the row above.
C6_NoWrap ==
    /\ fn \in ErrorEngines \cup {"fs_mono"} =>
          \A k \in 1..Len(trace) : \A j \in 1..Len(trace[k].writes) :
             LET w == trace[k].writes[j]
             IN  /\ w.to = <<trace[k].x + w.tap[1], trace[k].y + w.tap[2]>>
                 /\ (fn \in ErrorEngines => w.to \in Pos(xdim, ydim))
    /\ fn = "basic_mono" =>
          \A k \in 1..Len(trace) :
             trace[k].x = 0 => trace[k].inp = Gray(average(source[VisitPos(trace[k])]))

\* C7: for a kernel whose weights sum to its divisor and a pixel with every
\* tap inside the image, the amounts added to the neighbours sum, per
\* channel, to the pixel's quantization error up to rounding (less than one
\* unit per tap).
C7_Conservation ==
    (fn \in ErrorEngines \cup {"fs_mono"} /\ kernel \in BuiltinKernels
        /\ WeightSum(kernel.matrix) = kernel.portions)
    => \A k \in 1..Len(trace) :
          TapsInside(kernel.matrix, trace[k].x, trace[k].y)
          => \A c \in 1..3 :
                Abs(AddedBy(trace[k].writes, c) - trace[k].err[c]) <= Len(kernel.matrix)

UniformPaletteImage ==
    \E c \in Range(palette) : \A p \in DOMAIN source : source[p] = c

\* C8: an error-diffusion pass with a built-in kernel over a uniform image
\* of a palette colour leaves the image unchanged; every quantization error
\* and every propagated amount is zero.
C8_FixedPoint ==
    (fn \in DiffusionEngines /\ UsesBuiltinKernel /\ UniformPaletteImage)
    => /\ image = source
       /\ \A k \in 1..Len(trace) :
             /\ trace[k].err = <<0, 0, 0>>
             /\ trace[k].out = source[VisitPos(trace[k])]
             /\ \A j \in 1..Len(trace[k].writes) :
                   trace[k].writes[j].after = trace[k].writes[j].before

C8_Witness ==
    /\ fn = "affect" /\ pc = "done" /\ kernel = FLOYD_STEINBERG
    /\ xdim = 3 /\ ydim = 2
    /\ \A p \in DOMAIN source : source[p] = WHITE
    /\ palette = ONE_BIT
    /\ Len(trace) = 6
    /\ Len(trace[2].writes) = 4

\* C9: a quantizer called with an empty palette fails with EmptyPalette; it
\* returns no colour.
C9_EmptyPaletteFails ==
    (pc = "done" /\ palette = << >>) => result.kind = "EmptyPalette"

\* C10: a diffusion called with an invalid kernel (divisor not positive, or
\* a tap with dy < 0 or dy = 0 and dx <= 0) fails before any pixel is
\* visited and returns no image.
C10_InvalidKernelRejected ==
    (fn \in ErrorEngines /\ ~ValidKernel(kernel))
    => (trace = << >> /\ pc # "done")

\* C11: an ordered dither whose matrix size is zero or not a power of two
\* fails with InvalidMatrixSize: it neither crashes nor visits a pixel nor
\* returns an image.
C11_InvalidMatrixSizeRejected ==
    (fn = "bayer" /\ ~IsPowerOfTwo(matrix_size))
    => (trace = << >> /\ pc \notin {"done", "panic"})

\* C12: when a dither fails, no pixel of the image has been modified: the
\* image buffer still holds the source.
C12_FailureBeforeMutation ==
    pc = "panic" => image = source

\* the amount added to block (row half, column half) of the matrix
BlockAdd(r, c, h) ==
    IF r < h THEN (IF c < h THEN 0 ELSE 2) ELSE (IF c < h THEN 3 ELSE 1)

\* C13: dither_matrix(1) is [[0]]; for a power of two n = 2h > 1, with
\* M = dither_matrix(h) and mult = n^2, dither_matrix(n) is the n x n matrix
\* whose top-left, top-right, bottom-left and bottom-right blocks are
\* mult*M, mult*M + 2, mult*M + 3 and mult*M + 1, every entry over mult.
C13_BayerRecursion ==
    fn = "dither_matrix" =>
    \A k \in 1..Len(trace) :
       LET n == trace[k].n
           m == trace[k].matrix
           h == n \div 2
           mult == n * n
       IN  IsPowerOfTwo(n) =>
             IF n = 1
             THEN m.dim = 1 /\ DOMAIN m.at = {<<0, 0>>} /\ m.at[<<0, 0>>][1] = 0
             ELSE /\ m.dim = n
                  /\ DOMAIN m.at = (0..(n - 1)) \X (0..(n - 1))
                  /\ \A r \in 0..(n - 1) : \A c \in 0..(n - 1) :
                        LET e == m.at[<<r, c>>]
                            b == dither_matrix(h).at[<<r % h, c % h>>]
                        IN  e[1] * (b[2] * mult)
                              = (mult * b[1] + BlockAdd(r, c, h) * b[2]) * e[2]

C13_Witness ==
    /\ fn = "dither_matrix"
    /\ \E k \in 1..Len(trace) :
          /\ trace[k].n = 4
          /\ trace[k].matrix.at[<<0, 2>>] = <<1, 8>>
          /\ trace[k].matrix.at[<<3, 3>>] = <<5, 16>>

\* C14: dither_matrix(2) is exactly [[0, 1/2], [3/4, 1/4]].
C14_BayerTwo ==
    fn = "dither_matrix" =>
    \A k \in 1..Len(trace) :
       trace[k].n = 2 =>
          /\ trace[k].matrix.dim = 2
          /\ trace[k].matrix.at = [rc \in (0..1) \X (0..1) |->
                 IF rc = <<0, 0>> THEN <<0, 1>>
                 ELSE IF rc = <<0, 1>> THEN <<1, 2>>
                 ELSE IF rc = <<1, 0>> THEN <<3, 4>>
                 ELSE <<1, 4>>]

C14_Witness ==
    /\ fn = "dither_matrix"
    /\ \E k \in 1..Len(trace) : trace[k].n = 2 /\ trace[k].matrix.dim = 2

\* C15: for a power of two n, dither_matrix(n) has n rows and n columns and
\* every entry v satisfies 0 <= v < 1.
C15_BayerRange ==
    fn = "dither_matrix" =>
    \A k \in 1..Len(trace) :
       IsPowerOfTwo(trace[k].n) =>
          /\ trace[k].matrix.dim = trace[k].n
          /\ DOMAIN trace[k].matrix.at
                = (0..(trace[k].n - 1)) \X (0..(trace[k].n - 1))
          /\ \A rc \in DOMAIN trace[k].matrix.at :
                LET e == trace[k].matrix.at[rc]
                IN  e[2] > 0 /\ 0 <= e[1] /\ e[1] < e[2]

C15_Witness ==
    /\ fn = "dither_matrix"
    /\ \E k \in 1..Len(trace) :
          /\ trace[k].n = 8
          /\ trace[k].matrix.at[<<7, 0>>] = <<63, 64>>

C17_OrderedOffset ==
    (fn = "bayer" /\ IsPowerOfTwo(matrix_size) /\ palette # << >>)
    => \A k \in 1..Len(trace) :
          LET x == trace[k].x
              y == trace[k].y
              t == dither_matrix(matrix_size).at[<<x % matrix_size, y % matrix_size>>]
              q == 2 * t[2]
              off == 85 * (2 * t[1] - t[2])
              src == source[<<x, y>>]
              perturbed == <<src[1] * q + off, src[2] * q + off, src[3] * q + off>>
              D(j) == rgb_weighted_euclidean(perturbed, Scaled(palette[j], q), q)
          IN  /\ image[<<x, y>>] = trace[k].out
              /\ \E j \in 1..Len(palette) :
                    /\ trace[k].out = palette[j]
                    /\ \A i \in 1..Len(palette) : D(j) <= D(i)
                    /\ \A i \in 1..(j - 1) : D(i) > D(j)

C17_Witness ==
    /\ fn = "bayer" /\ pc = "done" /\ matrix_size = 2
    /\ xdim = 2 /\ ydim = 2
    /\ palette = ONE_BIT
    /\ \A p \in DOMAIN source : source[p] = Gray(120)
    /\ image[<<1, 0>>] = WHITE
    /\ image[<<0, 1>>] = BLACK

\* C18: in the ordered pass, whatever the order in which the pixels are
\* processed, every processed pixel holds the value the raster-order pass
\* gives it and every other pixel still holds its source value.
C18_OrderIndependent ==
    (fn = "bayer" /\ matrix_size # 0)
    => \A p \in DOMAIN image :
          image[p] = IF p \in Visited
                     THEN bayer_affect(source, 0, xdim, ydim, matrix_size, palette)[p]
                     ELSE source[p]

C18_Witness ==
    /\ fn = "bayer" /\ pc = "done" /\ matrix_size = 2
    /\ xdim = 2 /\ ydim = 2
    /\ palette = ONE_BIT
    /\ Len(trace) = 4
    /\ trace[1].x = 1 /\ trace[1].y = 1
    /\ trace[4].x = 0 /\ trace[4].y = 0
    /\ image # source
    /\ image[<<1, 0>>] # image[<<0, 1>>]

WeightsOf(a) == IF 2 * a[1] > 255 THEN <<3, 4, 2>> ELSE <<2, 4, 3>>

\* C20: every distance function, and the distance a quantizer evaluates for
\* colour C and palette entry X, is the non-negative sum
\* wr*(C.r-X.r)^2 + 4*(C.g-X.g)^2 + wb*(C.b-X.b)^2 with the weights chosen
\* by the red channel of C, the first argument.
C20_DistanceByFirstArgument ==
    (pc = "done" /\ result.kind = "distance")
    => /\ result.value >= 0
       /\ result.value = WeightsOf(original)[1] * Sq(original[1] - palette[1][1])
                        + WeightsOf(original)[2] * Sq(original[2] - palette[1][2])
                        + WeightsOf(original)[3] * Sq(original[3] - palette[1][3])


\* C21: every tap (dx, dy, weight) of every built-in kernel, in the constants
\* of dither/error.rs and in the tables of dither/errorpropagate.rs, points
\* forward in raster order (dy > 0, or dy = 0 and dx > 0) and has a positive
\* weight, and the kernel's divisor is positive; so does the kernel of every
\* pass that runs with a built-in kernel.
ForwardKernel(k) ==
    /\ k.portions > 0
    /\ \A i \in 1..Len(k.matrix) :
         /\ k.matrix[i][2] > 0 \/ (k.matrix[i][2] = 0 /\ k.matrix[i][1] > 0)
         /\ k.matrix[i][3] > 0

C21_ForwardTaps ==
    /\ \A k \in BuiltinKernels \cup ModuleKernels : ForwardKernel(k)
    /\ (fn \in ErrorEngines \cup {"fs_mono"}
        /\ kernel.name \in {k.name : k \in BuiltinKernels \cup ModuleKernels})
       => ForwardKernel(kernel)

C21_Witness ==
    /\ fn \in ErrorEngines
    /\ kernel \in BuiltinKernels \cup ModuleKernels
    /\ Len(kernel.matrix) = 12
    /\ pc = "done"
    /\ \E k \in 1..Len(trace) : trace[k].writes # << >>

\* the tap weights of the kernel constants and tables called x
WeightSums(x) == {WeightSum(k.matrix) : k \in {b \in BuiltinKernels \cup ModuleKernels : b.name = x}}

SameNamedKernel(name) ==
    CASE name = "floyd_steinberg_mono_dither" -> FLOYD_STEINBERG
      [] name = "jarvis_judice_ninke_mono_dither" -> JARVIS_JUDICE_NINKE
      [] name = "stucki_mono_dither" -> STUCKI
      [] name = "atkinson_mono_dither" -> ATKINSON
      [] name = "burkes_mono_dither" -> BURKES
      [] name = "sierra_mono_dither" -> SIERRA
      [] name = "two_row_sierra_mono_dither" -> SIERRA_TWO_ROW
      [] name = "sierra_lite_mono_dither" -> SIERRA_LITE

\* C27: for every pixel a hand-unrolled mono dither adds
\* error * weight / divisor at exactly the offsets of the same-named kernel
\* constant whose column exists (x + dx >= 0), with that kernel's weights and
\* divisor; the targets inside the image and their weights are those the
\* kernel-driven loop of ErrorPropagator::affect writes for the same pixel.
C27_UnrolledMatchesKernel ==
    fn \in MonoDitherNames =>
      \A k \in 1..Len(trace) :
         LET v == trace[k]
             K == SameNamedKernel(fn)
             taps == {i \in 1..Len(K.matrix) : v.x + K.matrix[i][1] >= 0}
             generic == propagate("affect", source, xdim, ydim, v.x, v.y,
                                  Gray(v.err), 1, K, << >>).writes
         IN  /\ Len(v.writes) = Cardinality(taps)
             /\ {<<v.writes[i].tap, v.writes[i].den>> : i \in 1..Len(v.writes)}
                  = {<<K.matrix[i], K.portions>> : i \in taps}
             /\ \A i \in 1..Len(v.writes) :
                  LET w == v.writes[i]
                  IN  /\ w.to = <<v.x + w.tap[1], v.y + w.tap[2]>>
                      /\ w.after - w.before = TruncDiv(v.err * w.tap[3], K.portions)
             /\ {<<v.writes[i].tap, v.writes[i].to>> :
                    i \in {j \in 1..Len(v.writes) : v.writes[j].to \in Pos(xdim, ydim)}}
                  = {<<generic[i].tap, generic[i].to>> : i \in 1..Len(generic)}

\* a Jarvis-Judice-Ninke pixel in the third column runs all twelve
\* statements with a non-zero error, some onto pixels and some onto padding
C27_Witness ==
    /\ fn = "jarvis_judice_ninke_mono_dither"
    /\ \E k \in 1..Len(trace) :
         /\ trace[k].err # 0
         /\ Len(trace[k].writes) = 12
         /\ \E i \in 1..12 : trace[k].writes[i].to \in Pos(xdim, ydim)
         /\ \E i \in 1..12 : trace[k].writes[i].to \notin Pos(xdim, ydim)

\* the rows and columns a hand-unrolled function adds to the image size
PaddingOf(name) == IF name = "floyd_steinberg_mono_dither" THEN 1 ELSE 2

\* C30: in the mono dithers that keep a padded error matrix the matrix has
\* (width + 1) x (height + 1) cells for Floyd-Steinberg and
\* (width + 2) x (height + 2) for the others, every read and every write of
\* a pass is inside it, no padding cell is read, and a finished pass over a
\* non-empty image has written padding cells.
C30_ErrorMatrixBounds ==
    fn \in MonoDitherNames =>
      /\ pc # "panic"
      /\ DOMAIN error_matrix = (0..(xdim + PaddingOf(fn) - 1))
                                  \X (0..(ydim + PaddingOf(fn) - 1))
      /\ \A k \in 1..Len(trace) :
           /\ trace[k].read \in DOMAIN error_matrix
           /\ trace[k].read \in Pos(xdim, ydim)
           /\ \A i \in 1..Len(trace[k].writes) :
                /\ trace[k].writes[i].in_bounds
                /\ trace[k].writes[i].to \in DOMAIN error_matrix
      /\ (pc = "done" /\ xdim >= 1 /\ ydim >= 1) =>
           \E k \in 1..Len(trace) : \E i \in 1..Len(trace[k].writes) :
              trace[k].writes[i].to \notin Pos(xdim, ydim)

\* a finished pass that left a non-zero value in a padding cell of the last
\* column and of the last row
C30_Witness ==
    /\ fn \in MonoDitherNames
    /\ pc = "done"
    /\ xdim >= 1 /\ ydim >= 1
    /\ error_matrix[<<xdim + PaddingOf(fn) - 1, 0>>] # 0
    /\ error_matrix[<<0, ydim + PaddingOf(fn) - 1>>] # 0

\* C28: for every power of two n the n * n entries of dither_matrix(n), each
\* multiplied by n * n, are whole numbers and are exactly 0, 1, ..., n*n - 1,
\* each at one cell.
C28_BayerPermutation ==
    fn = "dither_matrix" =>
    \A k \in 1..Len(trace) :
       LET n == trace[k].n
           m == trace[k].matrix
           times(e) == (e[1] * n * n) \div e[2]
       IN  IsPowerOfTwo(n) =>
             /\ \A rc \in DOMAIN m.at : (m.at[rc][1] * n * n) % m.at[rc][2] = 0
             /\ {times(m.at[rc]) : rc \in DOMAIN m.at} = 0..(n * n - 1)
             /\ Cardinality(DOMAIN m.at) = n * n
             /\ \A rc \in DOMAIN m.at : \A rd \in DOMAIN m.at :
                   times(m.at[rc]) = times(m.at[rd]) => rc = rd

\* the matrices of sizes 4 and 8 have been built; 8 holds 37/64 at one cell
C28_Witness ==
    /\ fn = "dither_matrix"
    /\ \E k \in 1..Len(trace) : trace[k].n = 4 /\ trace[k].matrix.dim = 4
    /\ \E k \in 1..Len(trace) :
          /\ trace[k].n = 8
          /\ Cardinality({rc \in DOMAIN trace[k].matrix.at :
                             trace[k].matrix.at[rc] = <<37, 64>>}) = 1

\* C23: after any sequence of new and with_palette calls a propagator is in
\* state WithPalette exactly when with_palette built it, every propagator in
\* state WithPalette holds a palette, affect has been applied only to a
\* propagator in state WithPalette, and its palette lookup has not failed.
C23_TypeState ==
    fn = "ErrorPropagator" =>
      /\ \A i \in 1..Len(trace) :
           /\ trace[i].state \in {"Base", "WithPalette"}
           /\ trace[i].state = "WithPalette" <=> trace[i].by = "with_palette"
           /\ trace[i].state = "WithPalette" => trace[i].palette.some
           /\ trace[i].state = "Base" => ~trace[i].palette.some
      /\ pc # "panic"
      /\ result.kind # "unwrap on None"
      /\ result.kind = "unwrapped" =>
           /\ cursor \in 1..Len(trace)
           /\ trace[cursor].state = "WithPalette"
           /\ trace[cursor].palette = Some(palette)

\* a propagator built by with_palette from another WithPalette propagator,
\* itself built from a Base one, has been applied
C23_Witness ==
    /\ fn = "ErrorPropagator"
    /\ Len(trace) = 3
    /\ trace[1].state = "Base"
    /\ trace[2] = with_palette(trace[1], << >>)
    /\ trace[3] = with_palette(trace[2], ONE_BIT)
    /\ result.kind = "unwrapped"
    /\ cursor = 3
    /\ palette = ONE_BIT

\* the weights of the writes of one visit that went to pos, summed
RECURSIVE WeightSentTo(_, _)
WeightSentTo(writes, pos) ==
    IF writes = << >> THEN 0
    ELSE (IF Head(writes).to = pos THEN Head(writes).tap[3] ELSE 0)
         + WeightSentTo(Tail(writes), pos)

RECURSIVE WritesTo(_, _)
WritesTo(writes, pos) ==
    IF writes = << >> THEN 0
    ELSE (IF Head(writes).to = pos THEN 1 ELSE 0) + WritesTo(Tail(writes), pos)

\* error * weight summed over the contributions the visits 1..k sent to pos
RECURSIVE ExactSent(_, _, _)
ExactSent(k, pos, c) ==
    IF k = 0 THEN 0
    ELSE trace[k].err[c] * WeightSentTo(trace[k].writes, pos) + ExactSent(k - 1, pos, c)

RECURSIVE ContributionsTo(_, _)
ContributionsTo(k, pos) ==
    IF k = 0 THEN 0 ELSE WritesTo(trace[k].writes, pos) + ContributionsTo(k - 1, pos)

\* C24: the value quantized at a pixel is the source value plus the sum of
\* the contributions error * weight / divisor sent to it by earlier pixels,
\* with no clamping to the channel range: the two differ by less than one
\* unit per contribution (the rounding of each contribution).
C24_UnclampedAccumulation ==
    (fn \in ErrorEngines \cup {"fs_mono"} /\ kernel \in BuiltinKernels)
    => \A k \in 1..Len(trace) : \A c \in 1..3 :
          LET pos == VisitPos(trace[k])
          IN  Abs(kernel.portions * (trace[k].inp[c] - source[pos][c])
                  - ExactSent(k - 1, pos, c))
                <= kernel.portions * ContributionsTo(k - 1, pos)

\* C25: every call of dither_matrix(size), size >= 0, comes to an end by
\* itself: it returns after finitely many recursive calls (the function has
\* no path on which it fails).
C25_Terminates == (fn = "dither_matrix_call") ~> (pc = "returned")

\* a pixel or an image with its alpha channel removed
Rgb(p) == <<p[1], p[2], p[3]>>

WithoutAlpha(item) == [p \in DOMAIN item |-> Rgb(item[p])]

\* C29: an RGB effect applied to an RGBA pixel or an RGBA image leaves the
\* alpha of every pixel and the width and height as they were, and the RGB
\* channels of the result are those the effect gives on the same pixel or
\* image with the alpha removed.
C29_AlphaFrame ==
    /\ (fn = "rgba_pixel_affect" /\ pc = "done") =>
          /\ result.value[4] = original[4]
          /\ Rgb(result.value) = rgb_pixel_effect(trace[1].effect, Rgb(original))
    /\ (fn = "rgba_image_affect" /\ pc = "done") =>
          /\ DOMAIN image = Pos(xdim, ydim)
          /\ get_dimensions_of_matrix(image) = get_dimensions_of_matrix(source)
          /\ \A p \in DOMAIN image : image[p][4] = source[p][4]
          /\ WithoutAlpha(image)
               = rgb_image_effect(trace[1].effect, WithoutAlpha(source),
                                  kernel, matrix_size, palette)

\* a dither has changed the colours of a 2x2 RGBA image whose pixels carry
\* two different alpha values
C29_Witness ==
    /\ fn = "rgba_image_affect"
    /\ pc = "done"
    /\ trace[1].effect \in {"ErrorPropagator", "Bayer"}
    /\ xdim = 2 /\ ydim = 2
    /\ source[<<0, 0>>][4] = 200
    /\ source[<<1, 1>>][4] = 0
    /\ \E p \in DOMAIN image : Rgb(image[p]) # Rgb(source[p])
    /\ \A p \in DOMAIN image : image[p][4] = source[p][4]

\* C26: in the gradient-map filter a pixel is left unmodified exactly when
\* its luminance is strictly less than no threshold of the sorted gradient;
\* every pixel whose luminance is below some threshold, the lowest included,
\* is assigned a colour, and the call does not fail.
C26_GradientMap ==
    fn = "apply_gradient_map" =>
      /\ pc # "panic"
      /\ \A k \in 1..Len(trace) :
           LET below == \E i \in 1..Len(palette) :
                           lightness2(trace[k].inp) < 2 * palette[i][2]
           IN  /\ trace[k].outcome = "unmodified" <=> ~below
               /\ below => trace[k].outcome = "assigned"
               /\ trace[k].outcome = "unmodified" => trace[k].out = trace[k].inp
====
